---------------------------- MODULE Spec2Model ----------------------------
(***************************************************************************)
(* Replenishment planning engine of                                        *)
(* shopping/02-predict/05_predict_two_dollars_delivery_order.py.           *)
(*                                                                         *)
(* Dates are whole calendar days counted from a Monday (day 0), so that    *)
(* Python's date.weekday() is d % 7.  Quantities, rates and stock levels   *)
(* are exact rationals <<numerator, denominator>>; prices are whole        *)
(* currency units.                                                         *)
(***************************************************************************)
EXTENDS Integers, Sequences, FiniteSets, TLC

VARIABLES
    pc,             \* position of the run
    start_date,     \* generate_order_dates: start_date (prediction_start)
    end_date,       \* generate_order_dates: end_date (horizon_end)
    dates,          \* generate_order_dates: the list being built
    weeks_seen,     \* generate_order_dates: loop counter
    hist,           \* compute_product_stats: the invoice rows of the run
    stock,          \* load_in_stock: the snapshot (in_stock_dict, stock_date)
    product_stats,  \* compute_product_stats: product -> stats
    orders,         \* the order list threaded through stages 4-6
    order_idx,      \* enforce_minimums: index of the order in the for loop
    valid_orders,   \* consolidate_small_orders: indexes of the non-empty orders
    i,              \* consolidate_small_orders: loop counter
    before,         \* the order list as it entered the running stage
    runs            \* the calls of enforce_minimums that have returned

vars == <<pc, start_date, end_date, dates, weeks_seen, hist, stock,
          product_stats, orders, order_idx, valid_orders, i, before, runs>>

-----------------------------------------------------------------------------
(* Bounds of the model *)

\* generate_order_dates is explored for start_date, end_date in 0..CalDays
CalDays == 20

-----------------------------------------------------------------------------
(* Program constants *)

MIN_ORDER_TOTAL == 50
DELIVERY_FEE == 2
ORDERS_PER_WEEK == 2
ORDER_OFFSETS == <<1, 5>>
PREDICTION_WINDOW_DAYS == 30

-----------------------------------------------------------------------------
(* Sequences *)

Min(a, b) == IF a <= b THEN a ELSE b
Max(a, b) == IF a >= b THEN a ELSE b

\* seq[:n]
Take(seq, n) == SubSeq(seq, 1, Min(n, Len(seq)))

Range(seq) == {seq[k] : k \in 1..Len(seq)}

RECURSIVE SumSeq(_)
SumSeq(seq) == IF seq = <<>> THEN 0 ELSE Head(seq) + SumSeq(Tail(seq))

-----------------------------------------------------------------------------
(* Exact arithmetic on <<numerator, denominator>>, denominator > 0, in     *)
(* lowest terms: the quantities, rates and stock levels of the program     *)

Abs(a) == IF a < 0 THEN -a ELSE a

RECURSIVE GCD(_, _)
GCD(a, b) == IF b = 0 THEN a ELSE GCD(b, a % b)

\* n / d, d # 0
Frac(n, d) ==
    LET g == GCD(Abs(n), Abs(d))
        sgn == IF d < 0 THEN -1 ELSE 1
    IN  <<sgn * (n \div g), sgn * (d \div g)>>

Whole(n) == <<n, 1>>
Zero == Whole(0)

RAdd(x, y) == Frac(x[1] * y[2] + y[1] * x[2], x[2] * y[2])
RSub(x, y) == Frac(x[1] * y[2] - y[1] * x[2], x[2] * y[2])
RMul(x, y) == Frac(x[1] * y[1], x[2] * y[2])
\* x / y, y # 0
RDiv(x, y) == Frac(x[1] * y[2], x[2] * y[1])
RLt(x, y) == x[1] * y[2] < y[1] * x[2]
RLe(x, y) == x[1] * y[2] <= y[1] * x[2]
RMax(x, y) == IF RLt(x, y) THEN y ELSE x
RMin(x, y) == IF RLt(y, x) THEN y ELSE x

\* math.ceil
Ceil(x) == -((-x[1]) \div x[2])

\* int(): truncation towards zero
Trunc(x) == IF x[1] >= 0 THEN x[1] \div x[2] ELSE -((-x[1]) \div x[2])

\* round(): to the nearest integer, a half to the even neighbour
Round(x) ==
    LET f == (2 * x[1] + x[2]) \div (2 * x[2])
        half == (2 * x[1] + x[2]) % (2 * x[2]) = 0
    IN  IF half /\ f % 2 = 1 THEN f - 1 ELSE f

RECURSIVE RSum(_)
RSum(seq) == IF seq = <<>> THEN Zero ELSE RAdd(Head(seq), RSum(Tail(seq)))

-----------------------------------------------------------------------------
(* generate_order_dates *)

\* date.weekday(): Monday = 0
Weekday(d) == d % 7

\* the mutant keeps every slot of the week, also those before start_date
WeekDatesNoLowerBound(start, s, e) ==
    LET offs == Take(ORDER_OFFSETS, ORDERS_PER_WEEK)
        cand == [k \in 1..Len(offs) |-> start + offs[k]]
    IN  SelectSeq(cand, LAMBDA d : ~(d > e))

\* the mutant takes one slot per week only
WeekDatesFirstSlot(start, s, e) ==
    LET offs == Take(ORDER_OFFSETS, 1)
        cand == [k \in 1..Len(offs) |-> start + offs[k]]
    IN  SelectSeq(cand, LAMBDA d : ~(d < s \/ d > e))

\* one pass of the for loop over ORDER_OFFSETS[:ORDERS_PER_WEEK], for the week
\* beginning on `start`
WeekDates(start, s, e) ==
    LET offs == Take(ORDER_OFFSETS, ORDERS_PER_WEEK)
        cand == [k \in 1..Len(offs) |-> start + offs[k]]
    IN  SelectSeq(cand, LAMBDA d : ~(d < s \/ d > e))

\* Monday of start_date's week
WeekStart(s) == s - Weekday(s)

RECURSIVE GenWeeks(_, _, _, _)
GenWeeks(s, e, w, acc) ==
    LET start == WeekStart(s) + 7 * w
    IN  IF start > e THEN acc
        ELSE GenWeeks(s, e, w + 1, acc \o WeekDates(start, s, e))

\* the whole function
generate_order_dates(s, e) == IF s > e THEN <<>> ELSE GenWeeks(s, e, 0, <<>>)

Unused == <<>>

CalUnchanged == UNCHANGED <<hist, stock, product_stats, orders, order_idx,
                            valid_orders, i, before, runs>>

CalInit ==
    /\ pc = "cal_call"
    /\ start_date \in 0..CalDays
    /\ end_date \in 0..CalDays
    /\ dates = <<>>
    /\ weeks_seen = 0
    /\ hist = Unused /\ stock = Unused /\ product_stats = Unused
    /\ orders = Unused /\ order_idx = 0 /\ valid_orders = Unused /\ i = 0
    /\ before = Unused /\ runs = 0

\* if start_date > end_date: return []
CalReturnEmpty ==
    /\ pc = "cal_call"
    /\ start_date > end_date
    /\ pc' = "cal_done"
    /\ UNCHANGED <<start_date, end_date, dates, weeks_seen>>
    /\ CalUnchanged

\* dates = []; week_start = ...; weeks_seen = 0
CalEnterLoop ==
    /\ pc = "cal_call"
    /\ ~(start_date > end_date)
    /\ pc' = "cal_loop"
    /\ dates' = <<>>
    /\ weeks_seen' = 0
    /\ UNCHANGED <<start_date, end_date>>
    /\ CalUnchanged

\* one iteration of the while loop that does not break
CalWeek ==
    /\ pc = "cal_loop"
    /\ LET start == WeekStart(start_date) + 7 * weeks_seen
       IN  /\ ~(start > end_date)
           /\ dates' = dates \o WeekDates(start, start_date, end_date)
    /\ weeks_seen' = weeks_seen + 1
    /\ UNCHANGED <<pc, start_date, end_date>>
    /\ CalUnchanged

\* if start > end_date: break; return dates
CalBreak ==
    /\ pc = "cal_loop"
    /\ WeekStart(start_date) + 7 * weeks_seen > end_date
    /\ pc' = "cal_done"
    /\ UNCHANGED <<start_date, end_date, dates, weeks_seen>>
    /\ CalUnchanged

CalNext == CalReturnEmpty \/ CalEnterLoop \/ CalWeek \/ CalBreak

SpecCal == CalInit /\ [][CalNext]_vars

-----------------------------------------------------------------------------
(* load_grouped_orders: the invoice rows.  hist is the sequence of invoice *)
(* items in file order, each [product, ds, y, price]: the product, its     *)
(* invoice's date, the ordered quantity and the unit price                 *)

\* an optional date is <<>> (None) or <<d>>
NoDate == <<>>
\* float("nan") and float("inf"), apart from every <<n, d>> with d > 0
NaN == <<0, 0>>
Inf == <<1, 0>>

\* rows.append(...) happens for: product and quantity > 0
DemandRows(h) == SelectSeq(h, LAMBDA r : RLt(Zero, r.y))

\* last_invoice_date of a file with at least one dated invoice: the latest date
LastInvoiceDate(h) ==
    CHOOSE d \in {h[k].ds : k \in 1..Len(h)} : \A k \in 1..Len(h) : h[k].ds <= d

\* product_prices[product]["price"]: the price of the first row, in file order,
\* among those of the product's latest date with price > 0; 0.0 (the .get
\* default) without such a row
ProductPrice(h, p) ==
    LET priced == SelectSeq(h, LAMBDA r : r.product = p /\ r.price > 0)
        latest == CHOOSE d \in {priced[k].ds : k \in 1..Len(priced)} :
                      \A k \in 1..Len(priced) : priced[k].ds <= d
        first == CHOOSE k \in 1..Len(priced) :
                      /\ priced[k].ds = latest
                      /\ \A j \in 1..(k - 1) : priced[j].ds # latest
    IN  IF priced = <<>> THEN 0 ELSE priced[first].price

\* price_history[product]: the (date, price, qty) of the rows with price > 0,
\* in file order
PriceHistory(h, p) == SelectSeq(h, LAMBDA r : r.product = p /\ r.price > 0)

\* df_grouped["product"].unique()
GroupedProducts(h) == {DemandRows(h)[k].product : k \in 1..Len(DemandRows(h))}

\* the ascending sequence of the members of a finite set of integers
RECURSIVE Ascending(_)
Ascending(S) ==
    IF S = {} THEN <<>>
    ELSE LET m == CHOOSE x \in S : \A z \in S : x <= z
         IN  <<m>> \o Ascending(S \ {m})

\* df_grouped[df_grouped["product"] == product].sort_values("ds"): one row
\* [ds, y] per date, y the sum of the date's quantities (groupby(...).sum())
ProductDf(h, p) ==
    LET rows == SelectSeq(DemandRows(h), LAMBDA r : r.product = p)
        days == Ascending({rows[k].ds : k \in 1..Len(rows)})
        ys(d) == LET on == SelectSeq(rows, LAMBDA r : r.ds = d)
                 IN  RSum([k \in 1..Len(on) |-> on[k].y])
    IN  [k \in 1..Len(days) |-> [ds |-> days[k], y |-> ys(days[k])]]

\* df_grouped["ds"].min()
OldestInvoiceDate(h) ==
    LET rows == DemandRows(h)
    IN  CHOOSE d \in {rows[k].ds : k \in 1..Len(rows)} :
            \A k \in 1..Len(rows) : d <= rows[k].ds

-----------------------------------------------------------------------------
(* analyze_price_patterns *)

RECURSIVE RMaxSeq(_)
RMaxSeq(seq) ==
    IF Len(seq) = 1 THEN seq[1] ELSE RMax(seq[1], RMaxSeq(Tail(seq)))

\* whether the product gets an entry: len(history) >= 2
HasPromoInfo(h, p) == Len(PriceHistory(h, p)) >= 2

\* has_promos: price_variance_pct = (max - min) / avg * 100 > 10
HasPromos(h, p) ==
    LET ph == PriceHistory(h, p)
        prices == {ph[k].price : k \in 1..Len(ph)}
        max_price == CHOOSE x \in prices : \A z \in prices : z <= x
        min_price == CHOOSE x \in prices : \A z \in prices : x <= z
        avg_price == Frac(SumSeq([k \in 1..Len(ph) |-> ph[k].price]), Len(ph))
    IN  RLt(Whole(10),
            RMul(RDiv(Whole(max_price - min_price), avg_price), Whole(100)))

\* the mutant leaves out the cap of 6
PromoStockUpUncapped(h, p) ==
    LET ph == PriceHistory(h, p)
        quantities == [k \in 1..Len(ph) |-> ph[k].y]
        avg_qty == RDiv(RSum(quantities), Whole(Len(ph)))
    IN  RMax(Whole(Trunc(RMul(avg_qty, Whole(2)))), RMaxSeq(quantities))

\* promo_stock_up = min(max(int(avg_qty * 2), max_qty_ordered), 6)
PromoStockUp(h, p) ==
    LET ph == PriceHistory(h, p)
        quantities == [k \in 1..Len(ph) |-> ph[k].y]
        avg_qty == RDiv(RSum(quantities), Whole(Len(ph)))
        max_qty_ordered == RMaxSeq(quantities)
    IN  RMin(RMax(Whole(Trunc(RMul(avg_qty, Whole(2)))), max_qty_ordered), Whole(6))

-----------------------------------------------------------------------------
(* load_in_stock and match_product_to_stock.  A name is a string, held as  *)
(* the sequence of its characters                                           *)

\* the products' names as the invoices print them
ProductName(p) ==
    << <<"M", "i", "l", "k", " ", "2", "%">>,
       <<"B", "r", "e", "a", "d">>,
       <<"E", "g", "g", "s">> >>[p]

\* str.lower() on the letters in use
Lower(s) ==
    LET upper == <<"M", "B", "E", "T", "S">>
        lower == <<"m", "b", "e", "t", "s">>
        low(c) == IF \E n \in 1..Len(upper) : upper[n] = c
                  THEN lower[CHOOSE n \in 1..Len(upper) : upper[n] = c]
                  ELSE c
    IN  [k \in 1..Len(s) |-> low(s[k])]

\* str.replace(old, new): left to right, occurrences not overlapping
RECURSIVE Replace(_, _, _)
Replace(s, old, new) ==
    IF Len(s) < Len(old) THEN s
    ELSE IF SubSeq(s, 1, Len(old)) = old
         THEN new \o Replace(SubSeq(s, Len(old) + 1, Len(s)), old, new)
         ELSE <<s[1]>> \o Replace(Tail(s), old, new)

\* str.strip()
RECURSIVE Strip(_)
Strip(s) ==
    IF s # <<>> /\ s[1] = " " THEN Strip(Tail(s))
    ELSE IF s # <<>> /\ s[Len(s)] = " " THEN Strip(SubSeq(s, 1, Len(s) - 1))
    ELSE s

\* str.split(): the words between runs of spaces
RECURSIVE SplitWords(_, _)
SplitWords(s, word) ==
    LET done == IF word = <<>> THEN <<>> ELSE <<word>>
    IN  IF s = <<>> THEN done
        ELSE IF s[1] = " " THEN done \o SplitWords(Tail(s), <<>>)
        ELSE SplitWords(Tail(s), Append(word, s[1]))

Split(s) == SplitWords(s, <<>>)

\* " ".join(words)
RECURSIVE Join(_)
Join(words) ==
    IF words = <<>> THEN <<>>
    ELSE IF Len(words) = 1 THEN words[1]
    ELSE words[1] \o <<" ">> \o Join(Tail(words))

\* the possessives removed, the apostrophes turned into spaces, the spaces
\* collapsed (applied to the product's name and to each stock key)
Collapsed(s) ==
    LET s1 == Replace(s, <<"'", "'", "s">>, <<>>)
        s2 == Replace(Replace(s1, <<"'", "s">>, <<>>), <<"'", "s">>, <<>>)
        s3 == Replace(s2, <<"'", "'">>, <<" ">>)
        s4 == Replace(Replace(s3, <<"'">>, <<" ">>), <<"'">>, <<" ">>)
    IN  Join(Split(s4))

\* product_words: the product's name lowered, its % removed, stripped
product_words(product_name) ==
    Split(Collapsed(Strip(Replace(Lower(product_name), <<"%">>, <<>>))))

\* stock_words: the stock key as load_in_stock left it, its % kept
stock_words(stock_key) == Split(Collapsed(stock_key))

NoStock == [dict |-> <<>>, date |-> NoDate]
NoMatch == <<>>

\* in_stock[product_partial] = quantity over the items of the file: a key keeps
\* the place of its first item and the quantity of its last
RECURSIVE InStock(_, _)
InStock(items, in_stock) ==
    IF items = <<>> THEN in_stock
    ELSE LET product_partial == Strip(Lower(items[1].product))
             at == {k \in 1..Len(in_stock) : in_stock[k].key = product_partial}
             entry == [key |-> product_partial, qty |-> items[1].quantity]
         IN  InStock(Tail(items),
                     IF at = {} THEN Append(in_stock, entry)
                     ELSE [in_stock EXCEPT ![CHOOSE k \in at : TRUE] = entry])

\* load_in_stock on a file [stock_date, items] that parses
load_in_stock(stock_data) ==
    [dict |-> InStock(stock_data.items, <<>>), date |-> stock_data.stock_date]

\* the qty of the first entry, in dict order, whose words all occur among the
\* product's words; None without one
match_product_to_stock(p, in_stock_dict) ==
    LET hits == SelectSeq(in_stock_dict,
                    LAMBDA e : \A n \in 1..Len(stock_words(e.key)) :
                                  stock_words(e.key)[n]
                                      \in Range(product_words(ProductName(p))))
    IN  IF hits = <<>> THEN NoMatch ELSE hits[1].qty

-----------------------------------------------------------------------------
(* compute_product_stats *)

\* product_df["interval"].mean(): the mean of the day differences of
\* consecutive rows, NaN for a single row
AvgInterval(df) ==
    IF Len(df) < 2 THEN NaN
    ELSE Frac(SumSeq([k \in 1..(Len(df) - 1) |-> df[k + 1].ds - df[k].ds]), Len(df) - 1)

\* the mutant leaves out the orders before the last one
DailyRateLastOrderOnly(df, oldest_invoice_date) ==
    LET last_qty == df[Len(df)].y
        period == df[Len(df)].ds - df[1].ds
    IN  IF period > 0 THEN RDiv(last_qty, Whole(period)) ELSE RDiv(last_qty, Whole(7))

\* daily_rate of the product with rows df (the total-period model)
DailyRate(df, oldest_invoice_date) ==
    LET total_qty == RSum([k \in 1..Len(df) |-> df[k].y])
        order_count == Len(df)
        first_date == df[1].ds
        last_date == df[Len(df)].ds
        avg_interval == AvgInterval(df)
        avg_qty_per_order == RDiv(total_qty, Whole(order_count))
    IN  IF order_count >= 2
        THEN IF last_date - first_date > 0
             THEN RDiv(total_qty, Whole(last_date - first_date))
             ELSE IF avg_interval # NaN /\ RLt(Zero, avg_interval)
                  THEN RDiv(avg_qty_per_order, avg_interval)
                  ELSE RDiv(avg_qty_per_order, Whole(7))
        ELSE IF last_date - oldest_invoice_date > 0
             THEN RDiv(total_qty, Whole(last_date - oldest_invoice_date))
             ELSE RDiv(total_qty, Whole(7))

\* the mutant forgets the clamp at zero
EstimatedStockUnclamped(daily_rate, last_order_qty, days_since_last_order, actual_stock, stock_date, prediction_start) ==
    IF actual_stock # NoMatch /\ stock_date # NoDate
    THEN RSub(actual_stock, RMul(daily_rate, Whole(prediction_start - stock_date[1])))
    ELSE RSub(last_order_qty, RMul(daily_rate, Whole(days_since_last_order)))

\* estimated_stock: from the snapshot when it has a match and a date, else
\* from the last order
EstimatedStock(daily_rate, last_order_qty, days_since_last_order, actual_stock, stock_date, prediction_start) ==
    IF actual_stock # NoMatch /\ stock_date # NoDate
    THEN RMax(Zero, RSub(actual_stock,
                         RMul(daily_rate, Whole(prediction_start - stock_date[1]))))
    ELSE RMax(Zero, RSub(last_order_qty,
                         RMul(daily_rate, Whole(days_since_last_order))))

\* the mutant keeps the one-off purchases however old
RetainedOneOffs(h, p, prediction_start) ==
    LET df == ProductDf(h, p)
        total_qty == RSum([k \in 1..Len(df) |-> df[k].y])
    IN  /\ ~RLe(total_qty, Zero)
        /\ ProductPrice(h, p) # 0

\* whether the loop body reaches stats[product] = ... (no `continue`)
Retained(h, p, prediction_start) ==
    LET df == ProductDf(h, p)
        total_qty == RSum([k \in 1..Len(df) |-> df[k].y])
        days_since_last_order == prediction_start - df[Len(df)].ds
    IN  /\ ~RLe(total_qty, Zero)
        /\ ProductPrice(h, p) # 0
        /\ ~(Len(df) < 2 /\ days_since_last_order > 30)

\* stats[product]
StatsOf(h, p, prediction_start, st) ==
    LET df == ProductDf(h, p)
        total_qty == RSum([k \in 1..Len(df) |-> df[k].y])
        order_count == Len(df)
        last_date == df[Len(df)].ds
        avg_interval == AvgInterval(df)
        days_since_last_order == prediction_start - last_date
        avg_qty_per_order == RDiv(total_qty, Whole(order_count))
        daily_rate == DailyRate(df, OldestInvoiceDate(h))
        weekly_need == RMul(daily_rate, Whole(7))
        frequent ==
            \/ order_count >= 3 /\ avg_interval # NaN /\ RLe(avg_interval, Whole(14))
            \/ RLe(<<1, 2>>, weekly_need)
        base_max == Max(1, Ceil(avg_qty_per_order))
        has_promos == HasPromoInfo(h, p) /\ HasPromos(h, p)
        promo_stock_up == IF HasPromoInfo(h, p) THEN PromoStockUp(h, p)
                          ELSE Whole(base_max)
        max_per_order == IF has_promos THEN RMax(Whole(base_max), promo_stock_up)
                         ELSE Whole(base_max)
        last_order_qty == df[Len(df)].y
        estimated_stock ==
            EstimatedStock(daily_rate, last_order_qty, days_since_last_order,
                           match_product_to_stock(p, st.dict), st.date,
                           prediction_start)
    IN  [daily_rate |-> daily_rate,
         weekly_need |-> weekly_need,
         avg_interval |-> avg_interval,
         avg_qty_per_order |-> avg_qty_per_order,
         frequent |-> frequent,
         max_per_order |-> max_per_order,
         unit_price |-> ProductPrice(h, p),
         estimated_stock |-> estimated_stock,
         days_until_empty |-> IF RLt(Zero, daily_rate)
                              THEN RDiv(estimated_stock, daily_rate) ELSE Inf,
         order_count |-> order_count,
         last_order_date |-> last_date,
         last_order_qty |-> last_order_qty,
         days_since_last_order |-> days_since_last_order,
         stock_source |-> IF match_product_to_stock(p, st.dict) # NoMatch
                             /\ st.date # NoDate
                          THEN "actual" ELSE "estimated",
         has_promos |-> has_promos,
         promo_stock_up |-> promo_stock_up]

\* the whole function: product -> stats, for the retained products
compute_product_stats(h, prediction_start, st) ==
    [p \in {q \in GroupedProducts(h) : Retained(h, q, prediction_start)} |->
        StatsOf(h, p, prediction_start, st)]

-----------------------------------------------------------------------------
(* build_minimal_orders *)

\* the mutant sorts by days_until_empty alone
UrgencyBeforeIgnoringNeed(a, b) == RLt(a.days_until_empty, b.days_until_empty)

\* the sort key (days_until_empty, -weekly_need) of a before that of b
UrgencyBefore(a, b) ==
    \/ RLt(a.days_until_empty, b.days_until_empty)
    \/ a.days_until_empty = b.days_until_empty /\ RLt(b.weekly_need, a.weekly_need)

\* sorted(product_stats.items(), key=...): a stable sort of the products in
\* dict order, which is the ascending order of df_grouped
RECURSIVE SortedProducts(_, _)
SortedProducts(stats, S) ==
    IF S = {} THEN <<>>
    ELSE LET m == CHOOSE x \in S : \A z \in S \ {x} :
                      \/ UrgencyBefore(stats[x], stats[z])
                      \/ ~UrgencyBefore(stats[z], stats[x]) /\ x < z
         IN  <<m>> \o SortedProducts(stats, S \ {m})

\* round(x, 1)
Round1(x) == Frac(Round(RMul(x, Whole(10))), 10)

\* qty_to_order of a line, for the shortfall of the date
QtyToOrder(s, shortfall) ==
    LET first == IF RLt(s.avg_qty_per_order, shortfall)
                 THEN s.max_per_order
                 ELSE RMax(Whole(1), Whole(Round(s.avg_qty_per_order)))
    IN  RMin(s.max_per_order, first)

\* the for loop over the orders for one product, from the order at index k on:
\* the sequence, one entry per order date, of the items appended on that date
\* (<<item>>, or <<>> when none is)
RECURSIVE ProductLines(_, _, _, _, _, _)
ProductLines(p, s, ds, k, current_stock, last_order_date) ==
    IF k > Len(ds) THEN <<>>
    ELSE LET stock_now == RSub(current_stock,
                               RMul(s.daily_rate, Whole(ds[k] - last_order_date)))
             days_until_next == IF k < Len(ds) THEN ds[k + 1] - ds[k] ELSE 3
             needed_for_period == RMul(s.daily_rate, Whole(days_until_next))
             qty_to_order == QtyToOrder(s, RSub(needed_for_period, stock_now))
             item == [product |-> p,
                      qty |-> qty_to_order,
                      unit_price |-> s.unit_price,
                      total_price |-> RMul(qty_to_order, Whole(s.unit_price)),
                      max_per_order |-> s.max_per_order,
                      stock_before |-> Round1(RMax(Zero, stock_now)),
                      need_until_next |-> Round1(needed_for_period),
                      topped_up |-> FALSE]
         IN  IF RLt(stock_now, needed_for_period)
             THEN << <<item>> >> \o ProductLines(p, s, ds, k + 1,
                                               RAdd(stock_now, qty_to_order), ds[k])
             ELSE << <<>> >> \o ProductLines(p, s, ds, k + 1, stock_now, ds[k])

\* the mutant plans every product, however little of it is used
PlannedAlways(s) == TRUE

\* whether the loop body runs for the product (no `continue`)
Planned(s) == ~RLe(s.daily_rate, Zero) /\ ~RLt(s.weekly_need, <<1, 4>>)

RECURSIVE Flatten(_)
Flatten(seqs) == IF seqs = <<>> THEN <<>> ELSE Head(seqs) \o Flatten(Tail(seqs))

\* sorted(product_stats.items(), key=...) for a map that is iterated in
\* dict_order: the stable sort keeps products with equal keys in that order
RECURSIVE sorted_products(_, _)
sorted_products(stats, dict_order) ==
    IF dict_order = <<>> THEN <<>>
    ELSE LET m == CHOOSE k \in 1..Len(dict_order) :
                      \A z \in 1..Len(dict_order) : z # k =>
                          \/ UrgencyBefore(stats[dict_order[k]], stats[dict_order[z]])
                          \/ /\ ~UrgencyBefore(stats[dict_order[z]], stats[dict_order[k]])
                             /\ k < z
         IN  <<dict_order[m]>> \o
             sorted_products(stats, SubSeq(dict_order, 1, m - 1) \o
                                    SubSeq(dict_order, m + 1, Len(dict_order)))

\* the orders built when the products are processed in the order
\* sorted_products: one order per date, the items of each in that order
BuildSorted(stats, sorted_all, ds, start) ==
    LET sorted == SelectSeq(sorted_all, LAMBDA p : Planned(stats[p]))
        lines == [k \in 1..Len(sorted) |->
                     ProductLines(sorted[k], stats[sorted[k]], ds, 1,
                                  stats[sorted[k]].estimated_stock, start)]
    IN  [d \in 1..Len(ds) |->
            [date |-> ds[d],
             items |-> Flatten([k \in 1..Len(sorted) |-> lines[k][d]]),
             notes |-> <<>>]]

\* the mutant plans the two most urgent products only
build_two_most_urgent(stats, ds, start) ==
    BuildSorted(stats, Take(SortedProducts(stats, DOMAIN stats), 2), ds, start)

\* the whole function, for the product_stats of compute_product_stats, whose
\* dict order is the ascending order of df_grouped
build_minimal_orders(stats, ds, start) ==
    BuildSorted(stats, SortedProducts(stats, DOMAIN stats), ds, start)

-----------------------------------------------------------------------------
(* enforce_minimums *)

\* sum(item["total_price"] for item in order["items"])
ItemsTotal(items) == RSum([k \in 1..Len(items) |-> items[k].total_price])

\* the mutant goes on topping up whatever the total
WhileTestAnyTotal(items_total) == RLt(Zero, items_total)

\* the while condition
WhileTest(items_total) ==
    RLt(Zero, items_total) /\ RLt(items_total, Whole(MIN_ORDER_TOTAL))

\* the mutant stops one unit short of max_per_order
CandidatesOneShort(items, stats) ==
    SelectSeq([k \in 1..Len(items) |-> k],
              LAMBDA k : /\ RLt(RAdd(items[k].qty, Whole(1)),
                                stats[items[k].product].max_per_order)
                         /\ items[k].unit_price > 0)

\* the mutant takes the items at their max_per_order too
CandidatesAtCapToo(items, stats) ==
    SelectSeq([k \in 1..Len(items) |-> k], LAMBDA k : items[k].unit_price > 0)

\* candidates: the indexes of the items below their product's max_per_order
Candidates(items, stats) ==
    SelectSeq([k \in 1..Len(items) |-> k],
              LAMBDA k : /\ RLt(items[k].qty, stats[items[k].product].max_per_order)
                         /\ items[k].unit_price > 0)

\* new_candidates, sorted: the frequent products not in the order, by
\* descending unit price, equal prices in dict order
RECURSIVE ByPriceDescending(_, _)
ByPriceDescending(stats, S) ==
    IF S = {} THEN <<>>
    ELSE LET m == CHOOSE x \in S : \A z \in S \ {x} :
                      \/ stats[x].unit_price > stats[z].unit_price
                      \/ stats[x].unit_price = stats[z].unit_price /\ x < z
         IN  <<m>> \o ByPriceDescending(stats, S \ {m})

NewCandidates(items, stats) ==
    LET existing_products == {items[k].product : k \in 1..Len(items)}
    IN  ByPriceDescending(stats,
            {p \in DOMAIN stats : /\ p \notin existing_products
                                  /\ stats[p].unit_price > 0
                                  /\ stats[p].frequent})

\* the mutant takes the first of the cheapest candidates
Cheapest(items, cands) ==
    cands[CHOOSE c \in 1..Len(cands) :
              /\ \A z \in 1..Len(cands) :
                    items[cands[z]].unit_price >= items[cands[c]].unit_price
              /\ \A z \in 1..(c - 1) :
                    items[cands[z]].unit_price > items[cands[c]].unit_price]

\* max(candidates, key=unit_price): the first of the dearest candidates
Dearest(items, cands) ==
    cands[CHOOSE c \in 1..Len(cands) :
              /\ \A z \in 1..Len(cands) :
                    items[cands[z]].unit_price <= items[cands[c]].unit_price
              /\ \A z \in 1..(c - 1) :
                    items[cands[z]].unit_price < items[cands[c]].unit_price]

\* the else branch of the loop body: one more unit of the dearest candidate
IncreaseQty(items, stats) ==
    LET k == Dearest(items, Candidates(items, stats))
        qty == RAdd(items[k].qty, Whole(1))
    IN  [items EXCEPT ![k] =
            [@ EXCEPT !.qty = qty,
                      !.total_price = RMul(qty, Whole(items[k].unit_price))]]

\* the if branch with new_candidates: one unit of the dearest frequent product
\* that the order does not hold
AddNewItem(items, stats) ==
    LET product == NewCandidates(items, stats)[1]
    IN  Append(items, [product |-> product,
                       qty |-> Whole(1),
                       unit_price |-> stats[product].unit_price,
                       total_price |-> Whole(stats[product].unit_price),
                       max_per_order |-> stats[product].max_per_order,
                       stock_before |-> Zero,
                       need_until_next |-> Zero,
                       topped_up |-> TRUE])

\* the mutant charges the fee on an empty order too
WithTotalsAlwaysFee(order) ==
    LET items_total == ItemsTotal(order.items)
    IN  [date |-> order.date, items |-> order.items, notes |-> order.notes,
         items_total |-> items_total,
         total_with_delivery |-> RAdd(items_total, Whole(DELIVERY_FEE)),
         meets_minimum |-> ~RLt(items_total, Whole(MIN_ORDER_TOTAL))]

\* order["items_total"] = ...; order["total_with_delivery"] = ...;
\* order["meets_minimum"] = ...
WithTotals(order) ==
    LET items_total == ItemsTotal(order.items)
    IN  [date |-> order.date, items |-> order.items, notes |-> order.notes,
         items_total |-> items_total,
         total_with_delivery |-> IF RLt(Zero, items_total)
                                 THEN RAdd(items_total, Whole(DELIVERY_FEE))
                                 ELSE Zero,
         meets_minimum |-> ~RLt(items_total, Whole(MIN_ORDER_TOTAL))]

\* the mutant runs the loop body once, an `if` for the `while`
AfterBodyFallThrough == "enf_set"

\* the mutant starts the enforcer afresh after a pass of the loop body
AfterBodyCallAgain == "built"

\* where control goes after the loop body: back to the while condition
AfterBody == "enf_while"

-----------------------------------------------------------------------------
(* consolidate_small_orders *)

\* valid_orders: the orders with items, as indexes into the order list
ValidOrders(os) == SelectSeq([k \in 1..Len(os) |-> k], LAMBDA k : os[k].items # <<>>)

\* order.get("skipped")
Skipped(order) == "skipped" \in DOMAIN order /\ order.skipped

\* the index in items of the first item of the product, 0 without one
Existing(items, product) ==
    IF \E k \in 1..Len(items) : items[k].product = product
    THEN CHOOSE k \in 1..Len(items) :
             /\ items[k].product = product
             /\ \A j \in 1..(k - 1) : items[j].product # product
    ELSE 0

\* the mutant appends the item whether or not the next order holds its product
MergeItemAppending(next_items, item) == Append(next_items, item)

\* the mutant drops an item whose product the next order already holds
MergeItemDropping(next_items, item) ==
    IF Existing(next_items, item.product) # 0 THEN next_items
    ELSE Append(next_items, item)

\* the mutant forgets an item whose product the next order does not hold
MergeItemForgettingNew(next_items, item) ==
    LET e == Existing(next_items, item.product)
    IN  IF e # 0
        THEN [next_items EXCEPT ![e] =
                 [@ EXCEPT !.qty = RAdd(next_items[e].qty, item.qty),
                           !.total_price = RMul(RAdd(next_items[e].qty, item.qty),
                                                Whole(next_items[e].unit_price))]]
        ELSE next_items

\* one pass of the for loop over the merged order's items
MergeItem(next_items, item) ==
    LET e == Existing(next_items, item.product)
    IN  IF e # 0
        THEN [next_items EXCEPT ![e] =
                 [@ EXCEPT !.qty = RAdd(next_items[e].qty, item.qty),
                           !.total_price = RMul(RAdd(next_items[e].qty, item.qty),
                                                Whole(next_items[e].unit_price))]]
        ELSE Append(next_items, item)

RECURSIVE MergeItems(_, _)
MergeItems(next_items, items) ==
    IF items = <<>> THEN next_items
    ELSE MergeItems(MergeItem(next_items, Head(items)), Tail(items))

\* f"Merged from {date}"
MergeNote(date) == <<"Merged from", date>>

\* the order a merge leaves behind: no items, no value, skipped
Emptied(order) ==
    [date |-> order.date, items |-> <<>>, notes |-> order.notes,
     items_total |-> Zero, total_with_delivery |-> Zero,
     meets_minimum |-> order.meets_minimum, skipped |-> TRUE]

\* the mutant copies the items and leaves the merged order as it was
MergeIntoCopying(os, src, dst) ==
    [os EXCEPT ![dst] = [@ EXCEPT !.items = MergeItems(@, os[src].items),
                                  !.notes = Append(@, MergeNote(os[src].date))]]

\* the mutant merges the later order into the earlier one
MergeIntoBackwards(os, src, dst) ==
    [os EXCEPT ![src] = [@ EXCEPT !.items = MergeItems(@, os[dst].items),
                                  !.notes = Append(@, MergeNote(os[dst].date))],
               ![dst] = Emptied(@)]

\* the mutant moves the receiving order to the date of the merged one
MergeIntoRedating(os, src, dst) ==
    [os EXCEPT ![dst] = [@ EXCEPT !.items = MergeItems(@, os[src].items),
                                  !.notes = Append(@, MergeNote(os[src].date)),
                                  !.date = os[src].date],
               ![src] = Emptied(@)]

\* the mutant merges without the note
MergeIntoNoNote(os, src, dst) ==
    [os EXCEPT ![dst] = [@ EXCEPT !.items = MergeItems(@, os[src].items)],
               ![src] = Emptied(@)]

\* the body of `if not valid_orders[i]["meets_minimum"]`, for the orders at
\* indexes src = valid_orders[i] and dst = valid_orders[i + 1]
MergeInto(os, src, dst) ==
    [os EXCEPT ![dst] = [@ EXCEPT !.items = MergeItems(@, os[src].items),
                                  !.notes = Append(@, MergeNote(os[src].date))],
               ![src] = Emptied(@)]

\* the mutant recalculates the totals and keeps the flag of the enforcer
RecalculatedKeepingFlag(order) ==
    IF Skipped(order) THEN order
    ELSE [order EXCEPT
             !.items_total = ItemsTotal(order.items),
             !.total_with_delivery =
                 IF RLt(Zero, ItemsTotal(order.items))
                 THEN RAdd(ItemsTotal(order.items), Whole(DELIVERY_FEE))
                 ELSE Zero]

\* the recalculation of predict_two_dollar_delivery_orders, for one order
Recalculated(order) ==
    IF Skipped(order) THEN order
    ELSE [order EXCEPT
             !.items_total = ItemsTotal(order.items),
             !.total_with_delivery =
                 IF RLt(Zero, ItemsTotal(order.items))
                 THEN RAdd(ItemsTotal(order.items), Whole(DELIVERY_FEE))
                 ELSE Zero,
             !.meets_minimum = ~RLt(ItemsTotal(order.items), Whole(MIN_ORDER_TOTAL))]

-----------------------------------------------------------------------------
(* compute_product_stats on the histories of a run *)

\* the largest number of invoice rows of the product under study
MaxOrders == 3

HistDays == {0, 10, 20}
Qtys == {<<1, 2>>, Whole(3), Whole(10)}
Leads == {1, 5, PREDICTION_WINDOW_DAYS}

RowBefore(a, b) ==
    \/ a.ds < b.ds
    \/ a.ds = b.ds /\ a.product < b.product
    \/ a.ds = b.ds /\ a.product = b.product /\ RLt(a.y, b.y)

\* the rows of a set in file order: by date, product, quantity
RECURSIVE FileOrder(_)
FileOrder(S) ==
    IF S = {} THEN <<>>
    ELSE LET m == CHOOSE x \in S : \A z \in S \ {x} : RowBefore(x, z)
         IN  <<m>> \o FileOrder(S \ {m})

Row(p, d, q, pr) == [product |-> p, ds |-> d, y |-> q, price |-> pr]

\* the histories of product 1: 1..MaxOrders rows, one unit price (0: the
\* product has no recorded price)
StudyRows ==
    UNION {{ {Row(1, c[1], c[2], pr) : c \in cells} :
                cells \in {cs \in SUBSET (HistDays \X Qtys) :
                              Cardinality(cs) \in 1..MaxOrders} } :
           pr \in {0, 2}}

\* product 2: absent, or one row on the first or the last day, or a row of
\* quantity 0 (listed on the invoice, nothing ordered)
OtherRows ==
    {{}, {Row(2, 0, Whole(1), 5)}, {Row(2, 20, Whole(1), 5)}, {Row(2, 20, Zero, 5)}}

\* the names the stock file gives its items: a word of product 1's name,
\* in capitals, with a possessive, the whole name, no name, another product
StockNames ==
    << <<"m", "i", "l", "k">>,
       <<" ", "M", "I", "L", "K", " ">>,
       <<"M", "i", "l", "k", "'", "s">>,
       <<"M", "i", "l", "k", " ", "2", "%">>,
       <<>>,
       <<"T", "e", "a">> >>

StockItem(n, q) == [product |-> StockNames[n], quantity |-> q]

\* the item lists of the stock file naming something else than the plain
\* word: one item with four units left, or tea before milk
OtherStockItems ==
    {<<StockItem(n, Whole(4))>> : n \in 2..Len(StockNames)}
        \cup {<<StockItem(6, Whole(1)), StockItem(1, Whole(4))>>}

\* the snapshots: no file; the plain word with nothing or four units left,
\* undated or dated before or after the start; the other lists, dated before
Snapshots(prediction_start) ==
    {NoStock}
    \cup {load_in_stock([stock_date |-> d, items |-> <<StockItem(1, q)>>]) :
            q \in {Zero, Whole(4)},
            d \in {NoDate, <<prediction_start - 3>>, <<prediction_start + 2>>}}
    \cup {load_in_stock([stock_date |-> <<prediction_start - 3>>, items |-> its]) :
            its \in OtherStockItems}

StatsInit ==
    /\ pc = "stats_call"
    /\ \E a \in StudyRows, b \in OtherRows : hist = FileOrder(a \cup b)
    /\ \E lead \in Leads : start_date = LastInvoiceDate(hist) + lead
    /\ end_date = LastInvoiceDate(hist) + PREDICTION_WINDOW_DAYS
    /\ stock \in Snapshots(start_date)
    /\ product_stats = Unused
    /\ dates = <<>> /\ weeks_seen = 0
    /\ orders = Unused /\ order_idx = 0 /\ valid_orders = Unused /\ i = 0
    /\ before = Unused /\ runs = 0

\* product_stats = compute_product_stats(...)
StatsCompute ==
    /\ pc = "stats_call"
    /\ product_stats' = compute_product_stats(hist, start_date, stock)
    /\ pc' = "stats_done"
    /\ UNCHANGED <<start_date, end_date, dates, weeks_seen, hist, stock,
                   orders, order_idx, valid_orders, i, before, runs>>

StatsNext == StatsCompute

SpecStats == StatsInit /\ [][StatsNext]_vars

-----------------------------------------------------------------------------
(* predict_two_dollar_delivery_orders: a planning run *)

\* the purchase profiles a product of a run is drawn from: 1..MaxProfile
MaxProfile == 7

\* the day of the last invoice (a Monday)
LastDay == 9 * 7

\* a profile is the invoice rows of one product, each <<days before the last
\* invoice, quantity, how much dearer than the latest unit price, whether the
\* row has a price at all>>
Profiles ==
    << \* weekly, one unit at a time
       << <<7, Whole(1), 0, TRUE>>, <<0, Whole(1), 0, TRUE>> >>,
       \* two, then three units a fortnight later
       << <<14, Whole(2), 0, TRUE>>, <<0, Whole(3), 0, TRUE>> >>,
       \* one unit every six weeks: not frequent
       << <<42, Whole(1), 0, TRUE>>, <<0, Whole(1), 0, TRUE>> >>,
       \* a free item: no price on any row
       << <<0, Whole(1), 0, FALSE>> >>,
       \* bought dearer before: a promotion
       << <<7, Whole(1), 2, TRUE>>, <<0, Whole(2), 0, TRUE>> >>,
       \* one unit every nine weeks: less than a quarter unit a week
       << <<63, Whole(1), 0, TRUE>>, <<0, Whole(1), 0, TRUE>> >>,
       \* weighed goods, three orders, the first dearer
       << <<14, <<5, 2>>, 2, TRUE>>, <<7, <<1, 2>>, 0, TRUE>>,
          <<0, <<1, 2>>, 0, TRUE>> >>,
       \* a single order, on the last invoice
       << <<0, Whole(2), 0, TRUE>> >> >>

\* the latest unit price of each product
UnitPrices == <<30, 12, 4>>

ProfileRows(p, k) ==
    IF k = 0 THEN {}
    ELSE {Row(p, LastDay - f[1], f[2], IF f[4] THEN UnitPrices[p] + f[3] ELSE 0) :
             f \in Range(Profiles[k])}

\* today: prediction_start is LastDay + lead
PlanLeads == {1, 20, PREDICTION_WINDOW_DAYS, PREDICTION_WINDOW_DAYS + 1}

Init ==
    /\ pc = "plan_call"
    /\ \E choice \in [1..Len(UnitPrices) -> 0..MaxProfile] :
          hist = FileOrder(UNION {ProfileRows(p, choice[p]) : p \in DOMAIN choice})
    /\ \E lead \in PlanLeads : start_date = LastDay + lead
    /\ end_date = LastDay + PREDICTION_WINDOW_DAYS
    /\ stock = NoStock
    /\ product_stats = Unused
    /\ dates = <<>> /\ weeks_seen = 0
    /\ orders = Unused /\ order_idx = 0 /\ valid_orders = Unused /\ i = 0
    /\ before = Unused /\ runs = 0

\* if df_grouped is None: return (no file, or no row with a product and a
\* quantity > 0)
PlanNoData ==
    /\ pc = "plan_call"
    /\ DemandRows(hist) = <<>>
    /\ pc' = "nothing"
    /\ UNCHANGED <<start_date, end_date, dates, weeks_seen, hist, stock,
                   product_stats, orders, order_idx, valid_orders, i, before, runs>>

\* if prediction_start > horizon_end: return
PlanStale ==
    /\ pc = "plan_call"
    /\ DemandRows(hist) # <<>>
    /\ start_date > end_date
    /\ pc' = "nothing"
    /\ UNCHANGED <<start_date, end_date, dates, weeks_seen, hist, stock,
                   product_stats, orders, order_idx, valid_orders, i, before, runs>>

\* product_stats = compute_product_stats(...)
PlanStats ==
    /\ pc = "plan_call"
    /\ DemandRows(hist) # <<>>
    /\ ~(start_date > end_date)
    /\ product_stats' = compute_product_stats(hist, start_date, stock)
    /\ pc' = "plan_stats"
    /\ UNCHANGED <<start_date, end_date, dates, weeks_seen, hist, stock,
                   orders, order_idx, valid_orders, i, before, runs>>

\* if not product_stats: return
PlanNoDemand ==
    /\ pc = "plan_stats"
    /\ DOMAIN product_stats = {}
    /\ pc' = "nothing"
    /\ UNCHANGED <<start_date, end_date, dates, weeks_seen, hist, stock,
                   product_stats, orders, order_idx, valid_orders, i, before, runs>>

\* order_dates = generate_order_dates(prediction_start, horizon_end)
PlanDates ==
    /\ pc = "plan_stats"
    /\ DOMAIN product_stats # {}
    /\ dates' = generate_order_dates(start_date, end_date)
    /\ pc' = "plan_dates"
    /\ UNCHANGED <<start_date, end_date, weeks_seen, hist, stock,
                   product_stats, orders, order_idx, valid_orders, i, before, runs>>

\* if not order_dates: return
PlanNoDates ==
    /\ pc = "plan_dates"
    /\ dates = <<>>
    /\ pc' = "nothing"
    /\ UNCHANGED <<start_date, end_date, dates, weeks_seen, hist, stock,
                   product_stats, orders, order_idx, valid_orders, i, before, runs>>

\* orders = build_minimal_orders(product_stats, order_dates, prediction_start)
PlanBuild ==
    /\ pc = "plan_dates"
    /\ dates # <<>>
    /\ orders' = build_minimal_orders(product_stats, dates, start_date)
    /\ pc' = "built"
    /\ UNCHANGED <<start_date, end_date, dates, weeks_seen, hist, stock,
                   product_stats, order_idx, valid_orders, i, before, runs>>

\* the call enforce_minimums(orders, product_stats)
EnfCall ==
    /\ pc = "built"
    /\ order_idx' = 0
    /\ before' = orders
    /\ pc' = "enf_for"
    /\ UNCHANGED <<start_date, end_date, dates, weeks_seen, hist, stock,
                   product_stats, orders, valid_orders, i, runs>>

\* for order in orders: items_total = sum(...)
EnfNextOrder ==
    /\ pc = "enf_for"
    /\ order_idx < Len(orders)
    /\ order_idx' = order_idx + 1
    /\ pc' = "enf_while"
    /\ UNCHANGED <<start_date, end_date, dates, weeks_seen, hist, stock,
                   product_stats, orders, valid_orders, i, before, runs>>

\* a pass of the loop body with candidates
EnfIncrease ==
    /\ pc = "enf_while"
    /\ WhileTest(ItemsTotal(orders[order_idx].items))
    /\ Candidates(orders[order_idx].items, product_stats) # <<>>
    /\ orders' = [orders EXCEPT ![order_idx].items = IncreaseQty(@, product_stats)]
    /\ pc' = AfterBody
    /\ UNCHANGED <<start_date, end_date, dates, weeks_seen, hist, stock,
                   product_stats, order_idx, valid_orders, i, before, runs>>

\* a pass of the loop body without candidates, with new_candidates
EnfAddNew ==
    /\ pc = "enf_while"
    /\ WhileTest(ItemsTotal(orders[order_idx].items))
    /\ Candidates(orders[order_idx].items, product_stats) = <<>>
    /\ NewCandidates(orders[order_idx].items, product_stats) # <<>>
    /\ orders' = [orders EXCEPT ![order_idx].items = AddNewItem(@, product_stats)]
    /\ pc' = AfterBody
    /\ UNCHANGED <<start_date, end_date, dates, weeks_seen, hist, stock,
                   product_stats, order_idx, valid_orders, i, before, runs>>

\* the loop ends, by its condition or by break, and the order gets its totals
EnfSetTotals ==
    /\ \/ pc = "enf_set"
       \/ /\ pc = "enf_while"
          /\ \/ ~WhileTest(ItemsTotal(orders[order_idx].items))
             \/ /\ Candidates(orders[order_idx].items, product_stats) = <<>>
                /\ NewCandidates(orders[order_idx].items, product_stats) = <<>>
    /\ orders' = [orders EXCEPT ![order_idx] = WithTotals(@)]
    /\ pc' = "enf_for"
    /\ UNCHANGED <<start_date, end_date, dates, weeks_seen, hist, stock,
                   product_stats, order_idx, valid_orders, i, before, runs>>

\* the for loop is exhausted: enforce_minimums returns
EnfReturn ==
    /\ pc = "enf_for"
    /\ ~(order_idx < Len(orders))
    /\ runs' = runs + 1
    /\ pc' = "enforced"
    /\ UNCHANGED <<start_date, end_date, dates, weeks_seen, hist, stock,
                   product_stats, orders, order_idx, valid_orders, i, before>>

\* the call consolidate_small_orders(orders): valid_orders = [...]; i = 0
ConsCall ==
    /\ pc = "enforced"
    /\ valid_orders' = ValidOrders(orders)
    /\ i' = 1
    /\ before' = orders
    /\ pc' = "cons_while"
    /\ UNCHANGED <<start_date, end_date, dates, weeks_seen, hist, stock,
                   product_stats, orders, order_idx, runs>>

\* a pass of the while loop that merges valid_orders[i] into valid_orders[i + 1]
ConsMerge ==
    /\ pc = "cons_while"
    /\ i < Len(valid_orders)
    /\ ~orders[valid_orders[i]].meets_minimum
    /\ orders' = MergeInto(orders, valid_orders[i], valid_orders[i + 1])
    /\ i' = i + 1
    /\ UNCHANGED <<pc, start_date, end_date, dates, weeks_seen, hist, stock,
                   product_stats, order_idx, valid_orders, before, runs>>

\* a pass of the while loop over an order that meets the minimum
ConsKeep ==
    /\ pc = "cons_while"
    /\ i < Len(valid_orders)
    /\ orders[valid_orders[i]].meets_minimum
    /\ i' = i + 1
    /\ UNCHANGED <<pc, start_date, end_date, dates, weeks_seen, hist, stock,
                   product_stats, orders, order_idx, valid_orders, before, runs>>

\* the while loop ends: return orders
ConsReturn ==
    /\ pc = "cons_while"
    /\ ~(i < Len(valid_orders))
    /\ pc' = "consolidated"
    /\ UNCHANGED <<start_date, end_date, dates, weeks_seen, hist, stock,
                   product_stats, orders, order_idx, valid_orders, i, before, runs>>

\* the recalculation of the totals after consolidation
PlanRecalculate ==
    /\ pc = "consolidated"
    /\ orders' = [k \in 1..Len(orders) |-> Recalculated(orders[k])]
    /\ pc' = "done"
    /\ UNCHANGED <<start_date, end_date, dates, weeks_seen, hist, stock,
                   product_stats, order_idx, valid_orders, i, before, runs>>

Enforce == EnfCall \/ EnfNextOrder \/ EnfIncrease \/ EnfAddNew \/ EnfSetTotals \/ EnfReturn

Consolidate == ConsCall \/ ConsMerge \/ ConsKeep \/ ConsReturn

Next ==
    \/ PlanNoData \/ PlanStale \/ PlanStats \/ PlanNoDemand \/ PlanDates \/ PlanNoDates
    \/ PlanBuild
    \/ Enforce
    \/ Consolidate
    \/ PlanRecalculate

Spec == Init /\ [][Next]_vars

-----------------------------------------------------------------------------
(* enforce_minimums applied a second time to its own result *)

EnfCallAgain ==
    /\ pc = "enforced"
    /\ runs = 1
    /\ order_idx' = 0
    /\ before' = orders
    /\ pc' = "enf_for"
    /\ UNCHANGED <<start_date, end_date, dates, weeks_seen, hist, stock,
                   product_stats, orders, valid_orders, i, runs>>

NextTwice ==
    \/ PlanNoData \/ PlanStale \/ PlanStats \/ PlanNoDemand \/ PlanDates \/ PlanNoDates
    \/ PlanBuild
    \/ Enforce
    \/ EnfCallAgain

SpecTwice == Init /\ [][NextTwice]_vars

-----------------------------------------------------------------------------
(* Claims about enforce_minimums *)

\* the value of an order's items
Value(order) == ItemsTotal(order.items)

Below(order) == RLt(Value(order), Whole(MIN_ORDER_TOTAL))

\* every item has reached its product's max_per_order and every frequent
\* product with a positive price is in the order
Saturated(items) ==
    /\ \A k \in 1..Len(items) :
          RLe(product_stats[items[k].product].max_per_order, items[k].qty)
    /\ \A p \in DOMAIN product_stats :
          (product_stats[p].frequent /\ product_stats[p].unit_price > 0) =>
              \E k \in 1..Len(items) : items[k].product = p

\* C3: enforce_minimums is idempotent: a second run on its own output changes
\* no item, quantity, total_price, items_total, total_with_delivery or
\* meets_minimum of any order.
C3_SecondRunChangesNothing ==
    (pc = "enforced" /\ runs = 2) => orders = before

\* the first run topped an order up to the minimum and left another below it
C3_Witness ==
    /\ pc = "enforced" /\ runs = 2
    /\ \E k \in 1..Len(orders) :
          /\ orders[k].meets_minimum
          /\ \E n \in 1..Len(orders[k].items) : orders[k].items[n].topped_up
    /\ \E k \in 1..Len(orders) : orders[k].items # <<>> /\ ~orders[k].meets_minimum

\* C7 as claimed: a non-empty order ends with meets_minimum = false if and
\* only if at the end every item has reached its max_per_order and every
\* frequent product with a positive price is in the order; an order that starts
\* in that state below the minimum keeps its items and quantities.
C7_AsClaimed ==
    (pc = "enforced" /\ runs = 1) =>
        \A k \in 1..Len(orders) :
            orders[k].items # <<>> =>
                /\ ~orders[k].meets_minimum <=> Saturated(orders[k].items)
                /\ (Saturated(before[k].items) /\ Below(before[k])) =>
                       orders[k].items = before[k].items

\* C7 as amended: a non-empty order ends with meets_minimum = false if and
\* only if at the end its items are worth less than the minimum, every item
\* has reached its max_per_order and every frequent product with a positive
\* price is in the order; an order that starts in that state keeps its items
\* and quantities.
C7_BelowOnlyWhenSaturated ==
    (pc = "enforced" /\ runs = 1) =>
        \A k \in 1..Len(orders) :
            orders[k].items # <<>> =>
                /\ ~orders[k].meets_minimum <=>
                       (Below(orders[k]) /\ Saturated(orders[k].items))
                /\ (Saturated(before[k].items) /\ Below(before[k])) =>
                       orders[k].items = before[k].items

\* the scenario: one item of price 30 at its cap, no other frequent product
C7_Witness ==
    /\ pc = "enforced" /\ runs = 1
    /\ \E k \in 1..Len(orders) :
          /\ Len(before[k].items) = 1
          /\ before[k].items[1].unit_price = 30
          /\ Value(before[k]) = Whole(30)
          /\ Saturated(before[k].items)
          /\ ~orders[k].meets_minimum
          /\ orders[k].items = before[k].items

\* C10 as claimed: after enforce_minimums every order, empty or not, has
\* items_total = the sum of its items' total_price, total_with_delivery =
\* items_total + delivery_fee, and meets_minimum = (items_total >= minimum).
C10_AsClaimed ==
    (pc = "enforced" /\ runs = 1) =>
        \A k \in 1..Len(orders) :
            /\ orders[k].items_total = ItemsTotal(orders[k].items)
            /\ orders[k].total_with_delivery =
                   RAdd(orders[k].items_total, Whole(DELIVERY_FEE))
            /\ orders[k].meets_minimum <=>
                   RLe(Whole(MIN_ORDER_TOTAL), orders[k].items_total)

\* C10 as amended: after enforce_minimums every order has items_total = the
\* sum of its items' total_price and meets_minimum = (items_total >= minimum);
\* total_with_delivery = items_total + delivery_fee for an order with items,
\* and 0 for an empty order.
C10_TotalsFeeOnlyWithItems ==
    (pc = "enforced" /\ runs = 1) =>
        \A k \in 1..Len(orders) :
            /\ orders[k].items_total = ItemsTotal(orders[k].items)
            /\ orders[k].items # <<>> =>
                   orders[k].total_with_delivery =
                       RAdd(orders[k].items_total, Whole(DELIVERY_FEE))
            /\ orders[k].items = <<>> => orders[k].total_with_delivery = Zero
            /\ orders[k].meets_minimum <=>
                   RLe(Whole(MIN_ORDER_TOTAL), orders[k].items_total)

\* an empty order, a topped-up order and an order left below the minimum
C10_Witness ==
    /\ pc = "enforced" /\ runs = 1
    /\ \E k \in 1..Len(orders) : orders[k].items = <<>>
    /\ \E k \in 1..Len(orders) :
          orders[k].meets_minimum /\ orders[k].items # before[k].items
    /\ \E k \in 1..Len(orders) : orders[k].items # <<>> /\ ~orders[k].meets_minimum

\* the items of the order under enforcement that are below their product's cap
BelowCap(items) ==
    {k \in 1..Len(items) :
        RLt(items[k].qty, product_stats[items[k].product].max_per_order)}

\* the frequent products with a positive price that the order does not hold
Addable(items) ==
    {p \in DOMAIN product_stats :
        /\ product_stats[p].frequent /\ product_stats[p].unit_price > 0
        /\ \A k \in 1..Len(items) : items[k].product # p}

\* one item, the dearest of those below their cap, gains exactly one unit
OneUnitMoreOfDearest(old, new) ==
    /\ Len(new) = Len(old)
    /\ \E k \in BelowCap(old) :
          /\ \A z \in BelowCap(old) : old[z].unit_price <= old[k].unit_price
          /\ new[k].qty = RAdd(old[k].qty, Whole(1))
          /\ new[k].total_price = RMul(new[k].qty, Whole(old[k].unit_price))
          /\ new[k].product = old[k].product
          /\ new[k].unit_price = old[k].unit_price
          /\ \A z \in 1..Len(old) : z # k => new[z] = old[z]

\* one unit of the dearest addable product is appended, marked topped_up
OneUnitOfDearestNew(old, new) ==
    /\ Len(new) = Len(old) + 1
    /\ SubSeq(new, 1, Len(old)) = old
    /\ LET item == new[Len(new)]
       IN  /\ item.product \in Addable(old)
           /\ \A p \in Addable(old) :
                 product_stats[p].unit_price <= product_stats[item.product].unit_price
           /\ item.qty = Whole(1)
           /\ item.unit_price = product_stats[item.product].unit_price
           /\ item.total_price = Whole(item.unit_price)
           /\ item.topped_up

\* C12: each step of enforce_minimums on an order that is non-empty and below
\* the minimum follows the priority: if an included item is below its
\* max_per_order, the dearest of them gains exactly one unit and nothing else
\* changes; only when none is, one unit of the dearest frequent product not in
\* the order is added, marked topped_up; no other order is touched.
C12_IncreaseDearestBeforeAddingNew ==
    [][(pc = "enf_while" /\ WhileTest(Value(orders[order_idx]))) =>
          LET old == orders[order_idx].items
              new == orders'[order_idx].items
          IN  /\ \A k \in 1..Len(orders) : k # order_idx => orders'[k] = orders[k]
              /\ Len(orders') = Len(orders)
              /\ orders'[order_idx].date = orders[order_idx].date
              /\ BelowCap(old) # {} => OneUnitMoreOfDearest(old, new)
              /\ (BelowCap(old) = {} /\ Addable(old) # {}) => OneUnitOfDearestNew(old, new)
              /\ (BelowCap(old) = {} /\ Addable(old) = {}) => new = old]_vars

\* an order in which the dearest of two items below their caps was increased
\* first, and which then got a new item
C12_Witness ==
    /\ pc = "enf_while"
    /\ LET old == before[order_idx].items
           new == orders[order_idx].items
       IN  /\ Len(new) > Len(old)
           /\ new[Len(new)].topped_up
           /\ \E k, z \in 1..Len(old) :
                 /\ old[k].unit_price > old[z].unit_price
                 /\ RLt(old[k].qty, product_stats[old[k].product].max_per_order)
                 /\ RLt(old[z].qty, product_stats[old[z].product].max_per_order)
                 /\ RLt(old[k].qty, new[k].qty)

-----------------------------------------------------------------------------
(* Claims about consolidate_small_orders *)

RECURSIVE SumValues(_)
SumValues(os) == IF os = <<>> THEN Zero ELSE RAdd(Value(Head(os)), SumValues(Tail(os)))

\* the orders that are not skipped
Kept(os) == SelectSeq(os, LAMBDA o : ~Skipped(o))

ProductsIn(os) ==
    UNION {{os[k].items[n].product : n \in 1..Len(os[k].items)} : k \in 1..Len(os)}

\* the quantity of a product in a list of items
QtyOf(items, p) ==
    LET of == SelectSeq(items, LAMBDA it : it.product = p)
    IN  RSum([n \in 1..Len(of) |-> of[n].qty])

\* the sum of the recorded items_total of the orders
RECURSIVE SumItemsTotal(_)
SumItemsTotal(os) ==
    IF os = <<>> THEN Zero ELSE RAdd(Head(os).items_total, SumItemsTotal(Tail(os)))

\* C4: consolidation conserves value: the value of the items of the orders
\* that are not skipped, at every point of the pass and after it, and their
\* recalculated items_total at the end of the run, add up to the sum of
\* items_total over all orders before consolidation.
C4_ValueConserved ==
    /\ pc \in {"cons_while", "consolidated"} =>
          SumValues(Kept(orders)) = SumItemsTotal(before)
    /\ pc = "done" => SumItemsTotal(Kept(orders)) = SumItemsTotal(before)

\* a chain: two adjacent non-empty orders were both merged forward, and a
\* merge added to the quantity of a product the receiving order already held
C4_Witness ==
    /\ pc = "done"
    /\ \E a \in 1..(Len(valid_orders) - 2) :
          /\ Skipped(orders[valid_orders[a]])
          /\ Skipped(orders[valid_orders[a + 1]])
          /\ ~Skipped(orders[valid_orders[a + 2]])
          /\ \E p \in ProductsIn(before) :
                /\ RLt(Zero, QtyOf(before[valid_orders[a]].items, p))
                /\ RLt(Zero, QtyOf(before[valid_orders[a + 2]].items, p))

\* C5: consolidation never adds a product to the plan: the products appearing
\* in the orders are the same, at every point of the pass and after it, as
\* before it.
C5_SameProducts ==
    pc \in {"cons_while", "consolidated", "done"} =>
        ProductsIn(orders) = ProductsIn(before)

\* a merge moved a product into an order that did not hold it
C5_Witness ==
    /\ pc = "consolidated"
    /\ \E k \in 1..Len(orders) :
          /\ orders[k].items # <<>>
          /\ \E p \in ProductsIn(orders) :
                /\ QtyOf(before[k].items, p) = Zero
                /\ RLt(Zero, QtyOf(orders[k].items, p))

\* the notes of an order that name the order of a date as merged into it
NotesNaming(order, date) == SelectSeq(order.notes, LAMBDA n : n = MergeNote(date))

\* before consolidation, the non-empty order at position a of valid_orders was
\* below the minimum and followed by another non-empty order
MergedForward(a) ==
    /\ a \in 1..(Len(valid_orders) - 1)
    /\ ~before[valid_orders[a]].meets_minimum

\* the first position of the run of adjacent merged-forward orders ending at a
RunStart(a) ==
    CHOOSE lo \in 1..a :
        /\ \A c \in lo..a : MergedForward(c)
        /\ lo = 1 \/ ~MergedForward(lo - 1)

\* what the orders of valid_orders[lo..hi] held of product p before the pass
RunQty(lo, hi, p) ==
    RSum([c \in 1..(hi - lo + 1) |-> QtyOf(before[valid_orders[lo + c - 1]].items, p)])

RunValue(lo, hi) ==
    RSum([c \in 1..(hi - lo + 1) |-> before[valid_orders[lo + c - 1]].items_total])

C13_MergedIffBelowNow ==
    [][(pc = "cons_while" /\ i < Len(valid_orders)) =>
          LET src == valid_orders[i]
          IN  (orders'[src].items = <<>> /\ Skipped(orders'[src])) <=> Below(orders[src])]_vars

-----------------------------------------------------------------------------
(* Claims about compute_product_stats *)

\* the product has n >= 2 grouped orders, all of one quantity, at one interval
SteadyHistory(p) ==
    LET df == ProductDf(hist, p)
    IN  /\ Len(df) >= 2
        /\ \A k \in 1..Len(df) : df[k].y = df[1].y
        /\ \A k \in 1..(Len(df) - 1) : df[k + 1].ds - df[k].ds = df[2].ds - df[1].ds

\* the scenario: 10 units twice, 10 days apart, prediction_start 5 days after
\* the last order, no snapshot
TenTenScenario(p) ==
    LET df == ProductDf(hist, p)
    IN  /\ Len(df) = 2
        /\ df[1].y = Whole(10) /\ df[2].y = Whole(10)
        /\ df[2].ds - df[1].ds = 10
        /\ start_date = df[2].ds + 5
        /\ stock = NoStock

LastOrderDepletion(p) ==
    LET s == product_stats[p]
    IN  s.estimated_stock =
            RMax(Zero, RSub(s.last_order_qty,
                            RMul(s.daily_rate, Whole(start_date - s.last_order_date))))

C9_RatePositiveStockNonNegative ==
    pc = "stats_done" =>
        \A p \in DOMAIN product_stats :
            /\ RLt(Zero, product_stats[p].daily_rate)
            /\ RLe(Zero, product_stats[p].estimated_stock)

\* a single order on the oldest invoice date, and a snapshot that the
\* consumption since its date has used up
C9_Witness ==
    /\ pc = "stats_done"
    /\ 1 \in DOMAIN product_stats
    /\ product_stats[1].order_count = 1
    /\ product_stats[1].last_order_date = OldestInvoiceDate(hist)
    /\ product_stats[1].stock_source = "actual"
    /\ stock.date[1] < start_date
    /\ stock.dict[1].qty = Zero
    /\ product_stats[1].estimated_stock = Zero

-----------------------------------------------------------------------------
(* Claims about generate_order_dates *)

CadenceDays == Range(Take(ORDER_OFFSETS, ORDERS_PER_WEEK))

\* C1: for start <= end every returned date lies in [start, end], falls on a
\* cadence weekday (ORDER_OFFSETS), and the sequence is strictly ascending (so
\* without duplicates); for start > end the result is empty.  Stated of the
\* list at every point of the loop, hence of the returned list.
C1_DatesInRangeOnCadenceAscending ==
    pc \in {"cal_loop", "cal_done"} =>
        /\ \A k \in 1..Len(dates) :
              /\ start_date <= dates[k] /\ dates[k] <= end_date
              /\ Weekday(dates[k]) \in CadenceDays
        /\ \A k \in 1..(Len(dates) - 1) : dates[k] < dates[k + 1]
        /\ start_date > end_date => dates = <<>>

C1_Witness ==
    /\ pc = "cal_done"
    /\ start_date <= end_date
    /\ Len(dates) >= 4
    /\ Weekday(start_date) = 3

\* C2: the returned list is complete: every day d of [start, end] whose
\* weekday is in the cadence is returned exactly once; a window of 14 days
\* starting on a Monday yields exactly 4 dates.
C2_EveryCadenceDayOnce ==
    pc = "cal_done" =>
        /\ \A d \in start_date..end_date :
              Weekday(d) \in CadenceDays =>
                  Cardinality({k \in 1..Len(dates) : dates[k] = d}) = 1
        /\ (Weekday(start_date) = 0 /\ end_date = start_date + 13) =>
              dates = <<start_date + 1, start_date + 5, start_date + 8, start_date + 12>>

C2_Witness ==
    /\ pc = "cal_done"
    /\ Weekday(start_date) = 0
    /\ end_date = start_date + 13
    /\ Len(dates) = 4

-----------------------------------------------------------------------------
(* Claims about predict_two_dollar_delivery_orders *)

\* the flag of every order that is not skipped tells whether its items are
\* worth less than the minimum
HonestFlags ==
    \A k \in 1..Len(orders) :
        ~Skipped(orders[k]) => (~orders[k].meets_minimum <=> Below(orders[k]))

\* how far the run is from its end
Stage ==
    CASE pc = "plan_call" -> 9
      [] pc = "plan_stats" -> 8
      [] pc = "plan_dates" -> 7
      [] pc = "built" -> 6
      [] pc \in {"enf_for", "enf_while", "enf_set"} -> 5
      [] pc = "enforced" -> 4
      [] pc = "cons_while" -> 3
      [] pc = "consolidated" -> 2
      [] pc = "done" -> 1
      [] pc = "nothing" -> 0

\* the units the enforcer can still add to an order: those up to the cap of
\* each item, and a first unit and those up to the cap of each frequent
\* product the order does not hold
Room(items) ==
    LET upTo(cap, qty) == Max(0, Ceil(RSub(cap, qty)))
        held == [k \in 1..Len(items) |->
                    IF items[k].unit_price > 0
                    THEN upTo(product_stats[items[k].product].max_per_order, items[k].qty)
                    ELSE 0]
        new == NewCandidates(items, product_stats)
        fresh == [n \in 1..Len(new) |->
                    1 + upTo(product_stats[new[n]].max_per_order, Whole(1))]
    IN  SumSeq(held) + SumSeq(fresh)

\* the passes left in the loop the run is in, outer loop first
Rank ==
    CASE pc = "enf_for" -> <<Len(orders) - order_idx, 0>>
      [] pc = "enf_while" -> <<Len(orders) - order_idx, 1 + Room(orders[order_idx].items)>>
      [] pc = "cons_while" -> <<Len(valid_orders) - i, 0>>
      [] OTHER -> <<0, 0>>

\* a step that brings the end of the run nearer
Nearer ==
    \/ Stage' < Stage
    \/ Stage' = Stage /\ Rank'[1] < Rank[1] /\ Rank'[1] >= 0
    \/ Stage' = Stage /\ Rank'[1] = Rank[1] /\ Rank'[2] < Rank[2] /\ Rank'[2] >= 0

\* no step of the run looks up a product without stats, an order beyond the
\* list or a flag that was never set
NoFailedLookup ==
    /\ pc = "enf_while" =>
          /\ order_idx \in 1..Len(orders)
          /\ \A k \in 1..Len(orders[order_idx].items) :
                orders[order_idx].items[k].product \in DOMAIN product_stats
    /\ pc \in {"enforced", "cons_while", "consolidated"} =>
          \A k \in 1..Len(orders) :
              {"items", "notes", "meets_minimum"} \subseteq DOMAIN orders[k]
    /\ pc = "cons_while" =>
          /\ i >= 1
          /\ \A k \in 1..Len(valid_orders) : valid_orders[k] \in 1..Len(orders)

\* C11: the run never fails on a minimum that cannot be met: from the built
\* orders on no step looks up what is not there, every step brings the end
\* nearer (no loop runs for ever), and in the final plan every
\* order that is not skipped has meets_minimum = false exactly when its
\* items' total_price add up to less than the minimum.
C11_CompletesWithHonestFlags ==
    /\ [](pc = "done" => HonestFlags)
    /\ []NoFailedLookup
    /\ [][Nearer]_vars

\* a final plan with a merged order and an order that stays below the
\* minimum with what was merged into it
C11_Witness ==
    /\ pc = "done"
    /\ \E k \in 1..Len(orders) : Skipped(orders[k])
    /\ \E k \in 1..Len(orders) :
          /\ ~Skipped(orders[k]) /\ orders[k].items # <<>>
          /\ orders[k].notes # <<>>
          /\ ~orders[k].meets_minimum

\* C14: order identity is stable through building, enforcement and
\* consolidation: the order list has exactly one order per calendar date, in
\* calendar order, from the moment it is built to the end of the run; no order
\* is added, removed, reordered or re-dated, also when it is emptied and
\* marked skipped.
C14_OneOrderPerDate ==
    Stage \in 1..6 =>
        /\ Len(orders) = Len(dates)
        /\ \A k \in 1..Len(orders) : orders[k].date = dates[k]

\* a final plan with an order that was topped up, an order that was emptied
\* and an order that received a merge
C14_Witness ==
    /\ pc = "done"
    /\ \E k \in 1..Len(orders) : Skipped(orders[k]) /\ orders[k].date = dates[k]
    /\ \E k \in 1..Len(orders) : orders[k].notes # <<>>
    /\ \E k \in 1..Len(orders) :
          \E n \in 1..Len(orders[k].items) : orders[k].items[n].topped_up

\* why a run has nothing to plan
NothingToPlan ==
    \/ DemandRows(hist) = <<>>
    \/ start_date > end_date
    \/ DOMAIN product_stats = {}
    \/ dates = <<>>

\* the stages follow one another: a step stays in its stage, goes on to the
\* next one, or leaves the run before any order is built
InSequence ==
    \/ Stage' = Stage
    \/ Stage' = Stage - 1 /\ Stage' >= 1
    \/ Stage' = 0 /\ Stage \in 7..9

\* C15: a run either stops with nothing to plan and no orders (no usable
\* invoice row, prediction_start after horizon_end, no retained product or no
\* order date in the window) or runs the builder, the enforcer and the
\* consolidator, each exactly once and in that order, on the one order list;
\* no stage runs without the ones before it and none is entered twice.
C15_NothingOrStagesInSequence ==
    /\ [](pc = "nothing" => (NothingToPlan /\ orders = Unused))
    /\ [](Stage \in 1..6 => (~NothingToPlan /\ orders # Unused))
    /\ [](Stage \in 7..9 => orders = Unused)
    /\ [](runs = (IF Stage \in 1..4 THEN 1 ELSE 0))
    /\ [][InSequence]_vars

\* a run that ended with a plan after one call of each stage
C15_Witness ==
    /\ pc = "done"
    /\ runs = 1
    /\ valid_orders # Unused
    /\ \E k \in 1..Len(orders) : Skipped(orders[k])

-----------------------------------------------------------------------------
(* Claims about build_minimal_orders *)

\* whether the order at index k holds a line of product p
HasLine(k, p) == \E n \in 1..Len(orders[k].items) : orders[k].items[n].product = p

\* the quantities of p ordered on the dates before that of index k
OrderedBefore(k, p) == RSum([j \in 1..(k - 1) |-> QtyOf(orders[j].items, p)])

\* the simulated stock of p at the date of index k: the estimated stock, less
\* the consumption since start_date, plus what was ordered on earlier dates
StockAt(k, p) ==
    RAdd(RSub(product_stats[p].estimated_stock,
              RMul(product_stats[p].daily_rate, Whole(dates[k] - start_date))),
         OrderedBefore(k, p))

\* the consumption from the date of index k to the next date, 3 days for the
\* last date
NeededFrom(k, p) ==
    RMul(product_stats[p].daily_rate,
         Whole(IF k < Len(dates) THEN dates[k + 1] - dates[k] ELSE 3))

\* C16: build_minimal_orders emits a line for product p on the date of index k
\* if and only if p has weekly_need >= 0.25 and its simulated stock at that
\* date, what was ordered on earlier dates included, is below the consumption
\* until the next date (3 days for the last); a product with weekly_need <
\* 0.25 gets no line on any date.
C16_LineIffStockBelowNeed ==
    pc = "built" =>
        \A p \in DOMAIN product_stats : \A k \in 1..Len(orders) :
            /\ HasLine(k, p) <=>
                   /\ RLe(<<1, 4>>, product_stats[p].weekly_need)
                   /\ RLt(StockAt(k, p), NeededFrom(k, p))
            /\ RLt(product_stats[p].weekly_need, <<1, 4>>) => ~HasLine(k, p)

\* a product ordered on one date, covered by that order on the next and
\* ordered again later, beside a product used too little to be planned
C16_Witness ==
    /\ pc = "built"
    /\ \E p \in DOMAIN product_stats :
          \E k \in 1..(Len(orders) - 2) :
              /\ HasLine(k, p) /\ ~HasLine(k + 1, p)
              /\ \E j \in (k + 2)..Len(orders) : HasLine(j, p)
    /\ \E p \in DOMAIN product_stats : RLt(product_stats[p].weekly_need, <<1, 4>>)

\* the item is a positive whole number of units, at most its product's
\* max_per_order, priced at qty * unit_price
WellFormedItem(item) ==
    /\ item.qty[2] = 1
    /\ item.qty[1] >= 1
    /\ RLe(item.qty, product_stats[item.product].max_per_order)
    /\ item.total_price = RMul(item.qty, Whole(item.unit_price))

\* C17: before consolidation, in every order after build_minimal_orders and
\* after enforce_minimums, every item has a positive integer qty with 1 <= qty
\* <= max_per_order of its product and total_price = qty * unit_price, also
\* for histories with fractional quantities and products with promotions.
C17_WholeQtyWithinCap ==
    pc \in {"built", "enforced"} =>
        \A k \in 1..Len(orders) : \A n \in 1..Len(orders[k].items) :
            WellFormedItem(orders[k].items[n])

\* C18: every line build_minimal_orders emits covers the shortfall up to the
\* cap: with shortfall = needed_for_period - current_stock at its date, the
\* quantity of the line is at least min(shortfall, max_per_order).
C18_CoversShortfallUpToCap ==
    pc = "built" =>
        \A p \in DOMAIN product_stats : \A k \in 1..Len(orders) :
            HasLine(k, p) =>
                LET shortfall == RSub(NeededFrom(k, p), StockAt(k, p))
                IN  RLe(RMin(shortfall, product_stats[p].max_per_order),
                        QtyOf(orders[k].items, p))

\* product p comes before product q in the processing order: fewer days
\* until empty, or as many and a larger weekly need
KeyBefore(p, q) ==
    \/ RLt(product_stats[p].days_until_empty, product_stats[q].days_until_empty)
    \/ /\ product_stats[p].days_until_empty = product_stats[q].days_until_empty
       /\ RLt(product_stats[q].weekly_need, product_stats[p].weekly_need)

\* no item stands before an item that the processing order puts first
InKeyOrder(items) ==
    \A n, m \in 1..Len(items) :
        n < m => ~KeyBefore(items[m].product, items[n].product)

\* the orders of the products of a set, as sequences
Orderings(S) ==
    {f \in [1..Cardinality(S) -> S] : \A a, b \in DOMAIN f : a # b => f[a] # f[b]}

\* C19: build_minimal_orders processes the products by ascending
\* days_until_empty, ties by descending weekly_need: the items of every order
\* stand in that order, and for any iteration order of the product_stats map
\* the result holds the same items on the same dates, in that order too, so
\* that it can differ only between products equal on both keys.
C19_ItemsInUrgencyOrder ==
    pc = "built" =>
        /\ \A k \in 1..Len(orders) : InKeyOrder(orders[k].items)
        /\ orders = BuildSorted(product_stats,
                                sorted_products(product_stats,
                                                Ascending(DOMAIN product_stats)),
                                dates, start_date)
        /\ \A dict_order \in Orderings(DOMAIN product_stats) :
              LET alt == BuildSorted(product_stats,
                                     sorted_products(product_stats, dict_order),
                                     dates, start_date)
              IN  /\ Len(alt) = Len(orders)
                  /\ \A k \in 1..Len(orders) :
                        /\ alt[k].date = orders[k].date
                        /\ Range(alt[k].items) = Range(orders[k].items)
                        /\ Len(alt[k].items) = Len(orders[k].items)
                        /\ InKeyOrder(alt[k].items)

\* an order whose items the sort has put in another order than the map's: two
\* products as near empty as each other, the one with the larger need first
C19_Witness ==
    /\ pc = "built"
    /\ \E k \in 1..Len(orders) :
          \E n \in 1..(Len(orders[k].items) - 1) :
              LET a == orders[k].items[n].product
                  b == orders[k].items[n + 1].product
              IN  /\ a > b
                  /\ product_stats[a].days_until_empty = product_stats[b].days_until_empty
                  /\ RLt(product_stats[b].weekly_need, product_stats[a].weekly_need)

\* the lines of product p in a list of orders, as (date, qty) pairs
LinesOf(os, p) ==
    UNION {{<<os[k].date, os[k].items[n].qty>> :
               n \in {m \in 1..Len(os[k].items) : os[k].items[m].product = p}} :
           k \in 1..Len(os)}

\* the map of the products of S alone
Restricted(stats, S) == [q \in S |-> stats[q]]

\* C20: the builder simulates each product on its own: for the same dates and
\* start date, build_minimal_orders on any product map that agrees with
\* product_stats on product p, whatever other products it holds, yields the
\* same (date, qty) lines for p.
C20_LinesDependOnOwnStats ==
    pc = "built" =>
        \A p \in DOMAIN product_stats :
            \A S \in SUBSET (DOMAIN product_stats) :
                p \in S =>
                    LinesOf(build_minimal_orders(Restricted(product_stats, S),
                                                 dates, start_date), p)
                        = LinesOf(orders, p)

\* three products with lines, all three on one date
C20_Witness ==
    /\ pc = "built"
    /\ Cardinality(DOMAIN product_stats) = 3
    /\ \A p \in DOMAIN product_stats : LinesOf(orders, p) # {}
    /\ \E k \in 1..Len(orders) : Len(orders[k].items) = 3

-----------------------------------------------------------------------------
(* Claims about the eligibility of products in compute_product_stats *)

\* the invoice rows of product p that order something
OrderedRows(p) == SelectSeq(hist, LAMBDA r : r.product = p /\ RLt(Zero, r.y))

\* the distinct dates on which product p was ordered
OrderDates(p) == {OrderedRows(p)[k].ds : k \in 1..Len(OrderedRows(p))}

\* the product's rows in hist that carry a price
PricedRows(p) == SelectSeq(hist, LAMBDA r : r.product = p /\ r.price > 0)

\* eligibility as the claim words it, read off the invoice rows
Eligible(p) ==
    /\ RLt(Zero, RSum([k \in 1..Len(OrderedRows(p)) |-> OrderedRows(p)[k].y]))
    /\ PricedRows(p) # <<>>
    /\ \/ Cardinality(OrderDates(p)) >= 2
       \/ \E d \in OrderDates(p) :
             OrderDates(p) = {d} /\ start_date - d <= PREDICTION_WINDOW_DAYS

\* C21: compute_product_stats retains a product if and only if its total
\* ordered quantity is positive, it has a known non-zero unit price, and it
\* was ordered on two or more distinct dates or its single order is at most
\* 30 days before prediction_start; every other product of the invoices is
\* absent from the result
C21_RetainedIffEligible ==
    pc = "stats_done" =>
        \A p \in {hist[k].product : k \in 1..Len(hist)} :
            (p \in DOMAIN product_stats) <=> Eligible(p)

\* a one-off purchase older than the window is dropped while a product ordered
\* on two dates is kept
C21_Witness ==
    /\ pc = "stats_done"
    /\ \E p \in {hist[k].product : k \in 1..Len(hist)} :
          /\ p \notin DOMAIN product_stats
          /\ PricedRows(p) # <<>>
          /\ \E d \in OrderDates(p) :
                OrderDates(p) = {d} /\ start_date - d > PREDICTION_WINDOW_DAYS
    /\ \E q \in DOMAIN product_stats : Cardinality(OrderDates(q)) >= 2

-----------------------------------------------------------------------------
(* Claims about the stock estimate of compute_product_stats *)

\* the entries of the snapshot whose normalized name has all its tokens among
\* the tokens of the product's normalized name, one normalization for both
MatchingEntries(p) ==
    SelectSeq(stock.dict,
              LAMBDA e : Range(product_words(e.key))
                             \subseteq Range(product_words(ProductName(p))))

SnapshotProjection(s, snapshot_qty) ==
    RMax(Zero, RSub(snapshot_qty,
                    RMul(s.daily_rate, Whole(start_date - stock.date[1]))))

DepletionSinceLastOrder(s) ==
    RMax(Zero, RSub(s.last_order_qty,
                    RMul(s.daily_rate, Whole(start_date - s.last_order_date))))

\* C22: when the snapshot has a date and an entry matching the product (every
\* token of the entry's normalized name is a token of the product's
\* normalized name), estimated_stock is the entry's quantity less the
\* consumption from the snapshot's date to prediction_start, not below 0; in
\* every other case it is the last order's quantity less the consumption
\* since the last order, not below 0
C22_StockByPriority ==
    pc = "stats_done" =>
        \A p \in DOMAIN product_stats :
            IF stock.date # NoDate /\ MatchingEntries(p) # <<>>
            THEN \E n \in 1..Len(MatchingEntries(p)) :
                    product_stats[p].estimated_stock
                        = SnapshotProjection(product_stats[p], MatchingEntries(p)[n].qty)
            ELSE product_stats[p].estimated_stock
                     = DepletionSinceLastOrder(product_stats[p])

-----------------------------------------------------------------------------
(* Claims about analyze_price_patterns, read off the stats that take its   *)
(* entries over                                                            *)

\* the quantities of the product's price observations
ObservedQtys(p) == [k \in 1..Len(PricedRows(p)) |-> PricedRows(p)[k].y]

TwiceMeanQty(p) ==
    RMul(Whole(2), RDiv(RSum(ObservedQtys(p)), Whole(Len(PricedRows(p)))))

LargestQty(p) ==
    CHOOSE q \in Range(ObservedQtys(p)) : \A z \in Range(ObservedQtys(p)) : RLe(z, q)

\* without an entry the stats take the defaults of pinfo.get
NoPromoEntry(p) ==
    /\ ~product_stats[p].has_promos
    /\ product_stats[p].promo_stock_up = product_stats[p].max_per_order
    /\ product_stats[p].max_per_order
           = Whole(Max(1, Ceil(product_stats[p].avg_qty_per_order)))

\* C23 as claimed: with two or more price observations the recommended
\* stock-up quantity is min(max(2 * mean_order_qty, max_ever_ordered), 6);
\* with fewer there is no entry
C23_AsClaimed ==
    pc = "stats_done" =>
        \A p \in DOMAIN product_stats :
            IF Len(PricedRows(p)) >= 2
            THEN product_stats[p].promo_stock_up
                     = RMin(RMax(TwiceMeanQty(p), LargestQty(p)), Whole(6))
            ELSE NoPromoEntry(p)

\* C23: with two or more price observations the recommended stock-up
\* quantity is min(max(int(2 * mean_order_qty), max_ever_ordered), 6), twice
\* the mean cut to its whole part; it is never above 6 and, when the largest
\* observed quantity is at most 6, never below it; with fewer than two
\* observations there is no entry
C23_StockUpFromWholePartOfTwiceMean ==
    pc = "stats_done" =>
        \A p \in DOMAIN product_stats :
            IF Len(PricedRows(p)) >= 2
            THEN /\ product_stats[p].promo_stock_up
                        = RMin(RMax(Whole(Trunc(TwiceMeanQty(p))), LargestQty(p)),
                               Whole(6))
                 /\ RLe(product_stats[p].promo_stock_up, Whole(6))
                 /\ RLe(LargestQty(p), Whole(6))
                        => RLe(LargestQty(p), product_stats[p].promo_stock_up)
            ELSE NoPromoEntry(p)

\* twice the mean is above the largest quantity and is not whole: quantities
\* 1/2 and 3 give 3, not 3.5; and another history is capped at 6
C23_Witness ==
    /\ pc = "stats_done"
    /\ \E p \in DOMAIN product_stats :
          /\ Len(PricedRows(p)) >= 2
          /\ RLt(LargestQty(p), TwiceMeanQty(p))
          /\ RLt(product_stats[p].promo_stock_up, TwiceMeanQty(p))
          /\ RLt(TwiceMeanQty(p), Whole(6))

-----------------------------------------------------------------------------
(* Claims about the termination of enforce_minimums *)

\* the items of the order the enforcer is at, before and after a step
EnforcedItems == orders[order_idx].items
EnforcedItemsAfter == orders'[order_idx'].items

\* the step raises by one unit one quantity that was below its cap
RaisesOneTowardsCap ==
    /\ Len(EnforcedItemsAfter) = Len(EnforcedItems)
    /\ \E k \in 1..Len(EnforcedItems) :
          /\ RLt(EnforcedItems[k].qty,
                 product_stats[EnforcedItems[k].product].max_per_order)
          /\ EnforcedItemsAfter[k].qty = RAdd(EnforcedItems[k].qty, Whole(1))
          /\ \A z \in 1..Len(EnforcedItems) :
                z # k => EnforcedItemsAfter[z] = EnforcedItems[z]

\* the step adds one item, of a product the order did not hold
AddsProductNotHeld ==
    /\ Len(EnforcedItemsAfter) = Len(EnforcedItems) + 1
    /\ Take(EnforcedItemsAfter, Len(EnforcedItems)) = EnforcedItems
    /\ \A k \in 1..Len(EnforcedItems) :
          EnforcedItems[k].product # EnforcedItemsAfter[Len(EnforcedItemsAfter)].product

\* a step of the enforcer: the for loop moves to the next order or returns;
\* the top-up loop stops, or uses up some of the room left in the order
TopUpStep ==
    /\ pc = "enf_for" =>
          \/ pc' = "enf_while" /\ order_idx' = order_idx + 1
                               /\ order_idx' <= Len(orders) /\ orders' = orders
          \/ pc' = "enforced" /\ orders' = orders
    /\ pc = "enf_while" =>
          \/ /\ pc' = "enf_for"
             /\ order_idx' = order_idx
             /\ EnforcedItemsAfter = EnforcedItems
          \/ /\ pc' = "enf_while"
             /\ order_idx' = order_idx
             /\ Len(orders') = Len(orders)
             /\ RaisesOneTowardsCap \/ AddsProductNotHeld
             /\ Room(EnforcedItemsAfter) < Room(EnforcedItems)
             /\ Room(EnforcedItemsAfter) >= 0

\* C24: enforce_minimums terminates: the for loop goes through the orders
\* once, and every pass of an order's top-up loop either raises one quantity
\* towards its cap, adds a product the order did not hold, or stops; the
\* first two use up the finite room of the order, so the loop ends
C24_TopUpLoopEnds == [][TopUpStep]_vars

\* the top-up loop has raised a quantity and added a product and now stops
\* below the minimum because nothing is left to add
C24_Witness ==
    /\ pc = "enf_while"
    /\ \E k \in 1..Len(EnforcedItems) : EnforcedItems[k].topped_up
    /\ \E k \in 1..Len(before[order_idx].items) :
          RLt(before[order_idx].items[k].qty, EnforcedItems[k].qty)
    /\ WhileTest(ItemsTotal(EnforcedItems))
    /\ Room(EnforcedItems) = 0

-----------------------------------------------------------------------------
(* Claims about the single forward pass of consolidate_small_orders *)

\* the orders that had items when the pass began
NonEmptyAtStart == {k \in 1..Len(before) : before[k].items # <<>>}

\* the chronologically last of them
LastNonEmptyAtStart ==
    CHOOSE m \in NonEmptyAtStart : \A z \in NonEmptyAtStart : z <= m

\* the nearest later order that had items when the pass began
NearestLater(k) ==
    CHOOSE m \in NonEmptyAtStart :
        m > k /\ \A z \in NonEmptyAtStart : z > k => m <= z

\* the items of order src move to order dst and nothing else changes
ItemsMove(src, dst) ==
    /\ orders'[src].items = <<>>
    /\ \A k \in 1..Len(orders) : k \notin {src, dst} => orders'[k] = orders[k]
    /\ \A p \in ProductsIn(orders) :
          QtyOf(orders'[dst].items, p)
              = RAdd(QtyOf(orders[dst].items, p), QtyOf(orders[src].items, p))

\* a pass of the loop examines the next order that had items, and either
\* leaves every order alone or moves its items to the nearest later order
\* that had items
ForwardPass ==
    pc = "cons_while" =>
        \/ pc' = "consolidated" /\ orders' = orders
        \/ /\ pc' = "cons_while"
           /\ i' = i + 1
           /\ valid_orders' = valid_orders
           /\ Len(orders') = Len(orders)
           /\ \/ orders' = orders
              \/ /\ valid_orders[i] \in NonEmptyAtStart \ {LastNonEmptyAtStart}
                 /\ orders[valid_orders[i]].date
                        < orders[NearestLater(valid_orders[i])].date
                 /\ ItemsMove(valid_orders[i], NearestLater(valid_orders[i]))

\* the orders to examine are those that had items, each once, in date order
ExaminedInDateOrder ==
    pc = "cons_while" =>
        /\ Range(valid_orders) = NonEmptyAtStart
        /\ \A a, b \in 1..Len(valid_orders) :
              a < b => /\ valid_orders[a] < valid_orders[b]
                       /\ orders[valid_orders[a]].date < orders[valid_orders[b]].date

\* the last order that had items keeps items and is not marked skipped
LastOrderStays ==
    (pc \in {"cons_while", "consolidated"} /\ NonEmptyAtStart # {}) =>
        /\ orders[LastNonEmptyAtStart].items # <<>>
        /\ ~Skipped(orders[LastNonEmptyAtStart])

\* C25: consolidate_small_orders is a single forward pass: the orders that
\* had items when it began are examined once each in chronological order,
\* items only move from an order to the nearest later order that had items
\* then, never backwards, and the last of these orders is never emptied or
\* marked skipped, even below the minimum
C25_SingleForwardPass ==
    /\ []ExaminedInDateOrder
    /\ [][ForwardPass]_vars
    /\ []LastOrderStays

\* the pass has moved items twice and the last order, which holds them,
\* is still below the minimum
C25_Witness ==
    /\ pc = "consolidated"
    /\ Cardinality({k \in NonEmptyAtStart : Skipped(orders[k])}) >= 2
    /\ Below(orders[LastNonEmptyAtStart])
    /\ ~Skipped(orders[LastNonEmptyAtStart])

-----------------------------------------------------------------------------
(* Claims about the final plan *)

\* C26: max_per_order is a per-order cap in the final plan: after
\* consolidation every item of every order that is not skipped has a qty of
\* at most the max_per_order of its product
C26_WithinCapAfterConsolidation ==
    pc \in {"consolidated", "done"} =>
        \A k \in 1..Len(orders) :
            ~Skipped(orders[k]) =>
                \A n \in 1..Len(orders[k].items) :
                    RLe(orders[k].items[n].qty,
                        product_stats[orders[k].items[n].product].max_per_order)

-----------------------------------------------------------------------------
(* Claims about the totals consolidate_small_orders leaves *)

\* the recorded totals of the order are those of the items
TotalsOf(order, items) ==
    /\ order.items_total = ItemsTotal(items)
    /\ order.total_with_delivery
           = IF RLt(Zero, ItemsTotal(items))
             THEN RAdd(ItemsTotal(items), Whole(DELIVERY_FEE)) ELSE Zero
    /\ order.meets_minimum <=> RLe(Whole(MIN_ORDER_TOTAL), ItemsTotal(items))

NoItemsNoTotals(order) ==
    /\ order.items = <<>>
    /\ order.items_total = Zero
    /\ order.total_with_delivery = Zero

\* the order holds items merged into it
Received(order) == ~Skipped(order) /\ order.notes # <<>>

\* C27: when consolidate_small_orders returns, before any later
\* recomputation, every order that received merged items has items_total
\* equal to the sum of its items' total_price, total_with_delivery =
\* items_total + delivery fee and meets_minimum = (items_total >= minimum),
\* and every skipped order has no items and totals of 0
C27_TotalsConsistentOnReturn ==
    pc = "consolidated" =>
        \A k \in 1..Len(orders) :
            /\ Received(orders[k]) => TotalsOf(orders[k], orders[k].items)
            /\ Skipped(orders[k]) => NoItemsNoTotals(orders[k])

-----------------------------------------------------------------------------
(* Claims about the items of an order *)

\* no two items of the list are of the same product
DistinctProducts(items) ==
    \A a, b \in 1..Len(items) : a # b => items[a].product # items[b].product

\* C28: no order ever contains two items for the same product: after
\* build_minimal_orders, after every top-up step of enforce_minimums and
\* after every merge of consolidate_small_orders, chains of merges included
C28_OneItemPerProduct ==
    \A k \in 1..Len(orders) : DistinctProducts(orders[k].items)

\* after two merges an order holds, next to an item the enforcer added, a
\* product that it held before the pass and that a merged order held too,
\* in one item of a larger quantity
C28_Witness ==
    /\ pc = "cons_while"
    /\ \E k \in 1..Len(orders) :
          /\ Len(orders[k].items) >= 2
          /\ \E n \in 1..Len(orders[k].items) : orders[k].items[n].topped_up
          /\ \E n \in 1..Len(orders[k].items), j \in 1..(k - 1) :
                /\ Skipped(orders[j])
                /\ \E m \in 1..Len(before[j].items) :
                      before[j].items[m].product = orders[k].items[n].product
                /\ \E m \in 1..Len(before[k].items) :
                      /\ before[k].items[m].product = orders[k].items[n].product
                      /\ RLt(before[k].items[m].qty, orders[k].items[n].qty)
    /\ Cardinality({k \in 1..Len(orders) : Skipped(orders[k])}) >= 2

-----------------------------------------------------------------------------
(* Claims about the orders left below the minimum *)

\* the orders with items worth less than the minimum
BelowWithItems == {k \in 1..Len(orders) : orders[k].items # <<>> /\ Below(orders[k])}

\* C29: after enforce_minimums followed by consolidate_small_orders at most
\* one order with items is worth less than the minimum, and it is the
\* chronologically last order with items; every other order is empty or
\* worth at least the minimum
C29_OnlyLastOrderBelow ==
    pc \in {"consolidated", "done"} =>
        /\ Cardinality(BelowWithItems) <= 1
        /\ \A k \in BelowWithItems :
              \A j \in 1..Len(orders) :
                  orders[j].items # <<>> => (j <= k /\ orders[j].date <= orders[k].date)

\* the last order with items is below the minimum after an earlier order
\* that met it was kept
C29_Witness ==
    /\ pc = "consolidated"
    /\ BelowWithItems # {}
    /\ \E k \in BelowWithItems, j \in 1..Len(orders) :
          j < k /\ orders[j].items # <<>> /\ ~Below(orders[j])

-----------------------------------------------------------------------------
(* Claims about what enforce_minimums leaves alone *)

\* every item of old is in new at its place, of the same product and unit
\* price and of no smaller quantity
OnlyAdded(old, new) ==
    /\ Len(new) >= Len(old)
    /\ \A n \in 1..Len(old) :
          /\ new[n].product = old[n].product
          /\ new[n].unit_price = old[n].unit_price
          /\ RLe(old[n].qty, new[n].qty)

\* the enforcer has nothing to do for the order
NothingToTopUp(order) == order.items = <<>> \/ ~Below(order)

\* a step of the enforcer changes the items of no order that is empty or
\* worth the minimum, and only adds to the others
EnforcerStepOnlyAdds ==
    Stage = 5 =>
        /\ Len(orders') = Len(orders)
        /\ \A k \in 1..Len(orders) :
              /\ NothingToTopUp(orders[k]) => orders'[k].items = orders[k].items
              /\ OnlyAdded(orders[k].items, orders'[k].items)

\* against the orders enforce_minimums was called with
SinceTheCallOnlyAdded ==
    (Stage = 5 \/ pc = "enforced") =>
        /\ Len(orders) = Len(before)
        /\ \A k \in 1..Len(orders) :
              /\ NothingToTopUp(before[k]) => orders[k].items = before[k].items
              /\ OnlyAdded(before[k].items, orders[k].items)

\* C30: enforce_minimums only ever adds: an order that is empty or whose
\* items are already worth the minimum keeps exactly its items and
\* quantities; in every other order no item is removed, no quantity goes
\* down and no unit_price changes; and no step is taken on an order once its
\* items are worth the minimum, so the top-up stops at the first step that
\* reaches it
C30_EnforcerOnlyAdds ==
    /\ []SinceTheCallOnlyAdded
    /\ [][EnforcerStepOnlyAdds]_vars

\* enforce_minimums has returned: one order came with items worth the
\* minimum, one came empty, one was lifted to the minimum by the top-up
C30_Witness ==
    /\ pc = "enforced"
    /\ \E k \in 1..Len(orders) : before[k].items # <<>> /\ ~Below(before[k])
    /\ \E k \in 1..Len(orders) : before[k].items = <<>>
    /\ \E k \in 1..Len(orders) :
          /\ before[k].items # <<>> /\ Below(before[k])
          /\ ~Below(orders[k])

=========================================================================
